---- MODULE Spec2Model ----
(***************************************************************************)
(* Model of gmail-to-fortnox: the rule matcher (gmail_service.py), the     *)
(* persisted processed/ignored ID lists (config.py) and the processing run *)
(* of main() (app/main.py).                                                *)
(*                                                                         *)
(* Text is modelled as sequences of one-character strings so that          *)
(* substring containment and lower-casing are computed, not assumed.       *)
(***************************************************************************)
EXTENDS Integers, Sequences, FiniteSets, TLC

VARIABLES
    \* ---- persisted ID lists (config.py) ----
    files,            \* the four JSON files: cfg/data x processed/ignored
    last_saved,       \* storage harness: the list and the id of the last save_* call
    saved,            \* storage harness: every id passed to save_* so far, per list
    \* ---- rule matcher harness (gmail_service.py, main.py:388-410) ----
    m_rule,           \* the rule handed to the decider
    m_email,          \* the message content handed to the decider
    m_site,           \* which call site decided: "none", "matcher", "find", "main"
    m_matched,        \* its verdict
    \* ---- one run of main() (app/main.py:234-655) ----
    dry_run,          \* --dry-run
    ignore_processed, \* --ignore-processed
    rules,            \* config['email_rules']
    processed_emails, \* the list loaded at main.py:304
    ignored_emails,   \* the list loaded at main.py:311
    pc,               \* position of main()
    rule_index,       \* the rule the search loop is at (1-based)
    emails,           \* search result of the current rule
    email_pos,        \* position in emails
    matching_emails,  \* the matched list
    match_pos,        \* position in matching_emails
    cur,              \* locals of the message being processed (entries, pdf_path)
    log,              \* lines printed about a rule or a message (kind, id)
    fetched,          \* ids passed to gmail.get_message
    searched,         \* rule indices passed to gmail.search_emails
    extracted,        \* ids that reached the extraction step (main.py:419-480)
    vouchers,         \* the calls of accounting.create_voucher made so far
    \* ---- extraction harness (data_extraction.py, calculate_voucher_entries) ----
    x_spec,           \* the extraction spec of the one variable
    x_body_text,      \* email_content['body_text']
    x_body_html,      \* email_content['body_html']
    x_pc,             \* "input", "extracted", "calculated", "previewed" or "idle"
    x_consulted,      \* the sources extract_value was called on, in order
    x_captured,       \* the text captured for the variable
    x_result,         \* what extract_data returned (or that it raised)
    x_entries,        \* the entry templates handed to calculate_voucher_entries
    x_calculated,     \* what calculate_voucher_entries returned
    x_preview,        \* what preview_voucher returned
    \* ---- formula harness (formula_evaluator.py) ----
    f_formula,        \* the formula handed to evaluate
    f_variables,      \* the variable map handed to evaluate
    f_pc,             \* "input", "evaluated", "calculated" or "idle"
    f_trace,          \* the steps evaluate went through
    f_result,         \* what evaluate returned (or that it raised)
    f_calculated,     \* what calculate_voucher_entries returned (or that it raised)
    \* ---- OAuth wait (main.py: OAuthCallbackHandler, authenticate_accounting) ----
    a_pc,             \* position of authenticate_accounting
    a_authenticated,  \* what accounting_client.is_authenticated() answers
    auth_code,        \* the module-level auth_code (NoCode is None)
    a_server,         \* "none", "serving", "shut_down" or "closed"
    a_callbacks,      \* the codes do_GET received, with where the caller stood
    a_elapsed,        \* seconds since start_time
    a_fetched,        \* the code handed to fetch_tokens
    a_fetch,          \* "none", "ok" or "failed": how fetch_tokens ended
    a_result,         \* "none", "true" or "false": what authenticate_accounting returns
    \* ---- search paging (gmail_service.py: search_emails) ----
    s_pc,             \* "loop", "returned", "raised" or "idle"
    max_results,      \* the argument of search_emails
    messages,         \* the message references collected so far
    next_page_token,  \* NoToken is None
    total_fetched,
    fetch_count

storeVars == <<files, last_saved, saved>>
matchVars == <<m_rule, m_email, m_site, m_matched>>
runVars == <<dry_run, ignore_processed, rules, processed_emails, ignored_emails, pc,
             rule_index, emails, email_pos, matching_emails, match_pos, cur, log,
             fetched, searched, extracted, vouchers>>
extractVars == <<x_spec, x_body_text, x_body_html, x_pc, x_consulted, x_captured,
                 x_result, x_entries, x_calculated, x_preview>>
evalVars == <<f_formula, f_variables, f_pc, f_trace, f_result, f_calculated>>
authVars == <<a_pc, a_authenticated, auth_code, a_server, a_callbacks, a_elapsed,
              a_fetched, a_fetch, a_result>>
searchVars == <<s_pc, max_results, messages, next_page_token, total_fetched, fetch_count>>
pureVars == <<extractVars, evalVars, authVars, searchVars>>
vars == <<files, last_saved, saved, m_rule, m_email, m_site, m_matched,
          dry_run, ignore_processed, rules, processed_emails, ignored_emails, pc,
          rule_index, emails, email_pos, matching_emails, match_pos, cur, log,
          fetched, searched, extracted, vouchers,
          x_spec, x_body_text, x_body_html, x_pc, x_consulted, x_captured,
          x_result, x_entries, x_calculated, x_preview,
          f_formula, f_variables, f_pc, f_trace, f_result, f_calculated,
          a_pc, a_authenticated, auth_code, a_server, a_callbacks, a_elapsed,
          a_fetched, a_fetch, a_result,
          s_pc, max_results, messages, next_page_token, total_fetched, fetch_count>>

(***************************************************************************)
(* Bounds                                                                  *)
(***************************************************************************)
MaxBodyLen == 2       \* longest plain-text / HTML body
MaxTerms   == 2       \* longest body_contains list
MaxMsgs    == 2       \* message ids are 1..MaxMsgs
MaxStored  == 1       \* longest ID list found in a file at startup
MaxHits    == 2       \* most messages one run matches

Chars == {"a", "A", "b"}

RECURSIVE StrsUpTo(_)
StrsUpTo(n) ==
    IF n = 0 THEN { <<>> }
    ELSE LET shorter == StrsUpTo(n - 1)
         IN  shorter \cup { Append(s, c) : s \in { t \in shorter : Len(t) = n - 1 }, c \in Chars }

Bodies == StrsUpTo(MaxBodyLen)
Terms  == { <<c>> : c \in Chars }
\* header values of rules and of messages ("" is an unset criterion / a missing header)
RuleHdrs == { <<>>, <<"A">> }
MsgHdrs  == { <<>>, <<"a">>, <<"A">> }

RECURSIVE ListsUpTo(_, _)
ListsUpTo(S, n) ==
    IF n = 0 THEN { <<>> }
    ELSE LET shorter == ListsUpTo(S, n - 1)
         IN  shorter \cup { Append(l, x) : l \in { t \in shorter : Len(t) = n - 1 }, x \in S }

\* body_contains as configured: absent, one string, or a list of strings
BodyContainsValues ==
    { [type |-> "none", terms |-> <<>>] }
    \cup { [type |-> "str",  terms |-> <<t>>] : t \in Terms }
    \cup { [type |-> "list", terms |-> l] : l \in ListsUpTo(Terms, MaxTerms) }

Rules ==
    [ sender : RuleHdrs, subject : RuleHdrs, body_contains : BodyContainsValues ]

Emails ==
    [ sender : MsgHdrs, subject : MsgHdrs, body_text : Bodies, body_html : Bodies ]

(***************************************************************************)
(* Python string primitives                                                *)
(***************************************************************************)
\* `term in text`
Contains(term, text) ==
    \E i \in 0 .. (Len(text) - Len(term)) :
        SubSeq(text, i + 1, i + Len(term)) = term

\* str.lower(), character by character
LowerChar(c) == IF c = "A" THEN "a" ELSE IF c = "B" THEN "b" ELSE c
Lower(s) == [ i \in 1 .. Len(s) |-> LowerChar(s[i]) ]

\* truthiness of a str / list
Truthy(s) == Len(s) > 0

(***************************************************************************)
(* Rule matcher                                                            *)
(***************************************************************************)
\* rule.get('body_contains') is truthy
HasBodyContains(rule) ==
    rule.body_contains.type # "none" /\ Truthy(rule.body_contains.terms)

\* "Convert single string to list for consistent handling"
RequiredTerms(rule) == rule.body_contains.terms

\* mutant of TermInEitherBody: only the plain-text body is searched
TermInTextOnly(term, email) ==
    Truthy(email.body_text) /\ Contains(term, email.body_text)

\* one term against both bodies: (body_text and term in body_text) or (...html...)
TermInEitherBody(term, email) ==
    \/ (Truthy(email.body_text) /\ Contains(term, email.body_text))
    \/ (Truthy(email.body_html) /\ Contains(term, email.body_html))

\* mutant of HeaderCheck: an unset criterion no longer passes
HeaderCheckUnsetFails(criterion, value) ==
    Truthy(criterion) /\ Truthy(value) /\ Contains(criterion, value)

\* the sender / subject check: unset criterion passes, else case-sensitive containment
HeaderCheck(criterion, value) ==
    ~Truthy(criterion) \/ (Truthy(value) /\ Contains(criterion, value))

BodyCheck(email, rule) ==
    HasBodyContains(rule) =>
        \A k \in 1 .. Len(RequiredTerms(rule)) : TermInEitherBody(RequiredTerms(rule)[k], email)

\* GmailService._email_matches_rule
email_matches_rule(email, rule) ==
    /\ HeaderCheck(rule.sender, email.sender)
    /\ HeaderCheck(rule.subject, email.subject)
    /\ BodyCheck(email, rule)

\* the in-memory check of GmailService.find_matching_emails: the sender was
\* filtered by the server-side query, subject and body are checked here
find_matching_check(email, rule) ==
    /\ HeaderCheck(rule.subject, email.subject)
    /\ BodyCheck(email, rule)

\* GmailService.get_email_body: "Prefer HTML content", else the text body
get_email_body(email) ==
    IF Truthy(email.body_html) THEN email.body_html ELSE email.body_text

\* main(): body_match over the single body returned by get_email_body
main_body_match(email, rule) ==
    LET body_contains == rule.body_contains.terms
        email_body    == get_email_body(email)
    IN  IF Truthy(body_contains)
        THEN \E k \in 1 .. Len(body_contains) :
                 Contains(Lower(body_contains[k]), Lower(email_body))
        ELSE TRUE

\* main(): a rule without a sender is skipped; sender and subject are left to
\* the server-side search, the candidate is then decided by body_match alone
main_rule_matches(email, rule) ==
    /\ Truthy(rule.sender)
    /\ main_body_match(email, rule)

(***************************************************************************)
(* Persisted ID lists (config.py)                                          *)
(***************************************************************************)
IDs == 1 .. MaxMsgs

NoFile == [exists |-> FALSE, ids |-> <<>>]
File(l) == [exists |-> TRUE, ids |-> l]

InSeq(x, s) == \E i \in 1 .. Len(s) : s[i] = x
NoDup(s) == \A i, j \in 1 .. Len(s) : i # j => s[i] # s[j]

StoredLists == { l \in ListsUpTo(IDs, MaxStored) : NoDup(l) }
FileStates  == { NoFile } \cup { File(l) : l \in StoredLists }

\* paths_to_check: the file beside config.py first, then data/
load_ids(cfg, data) ==
    IF cfg.exists THEN cfg.ids
    ELSE IF data.exists THEN data.ids
    ELSE <<>>

get_processed_emails(f) == load_ids(f.cfg_processed, f.data_processed)
get_ignored_emails(f)   == load_ids(f.cfg_ignored, f.data_ignored)

\* "if email_id not in emails: emails.append(email_id)"
AppendIfAbsent(ids, email_id) ==
    IF InSeq(email_id, ids) THEN ids ELSE Append(ids, email_id)

\* save_*: read through get_*, append, write data/<name>.json
save_processed_email(f, email_id) ==
    [ f EXCEPT !.data_processed = File(AppendIfAbsent(get_processed_emails(f), email_id)) ]

save_ignored_email(f, email_id) ==
    [ f EXCEPT !.data_ignored = File(AppendIfAbsent(get_ignored_emails(f), email_id)) ]

(***************************************************************************)
(* Decimals.  A parsed Decimal is n / 10^scale; a value quantized to       *)
(* Decimal('0.01') is an integer number of hundredths ("cents").           *)
(***************************************************************************)
Digits == <<"0", "1", "2", "3", "4", "5", "6", "7", "8", "9">>
IsDigit(c) == \E i \in 1 .. 10 : Digits[i] = c
DigitVal(c) == (CHOOSE i \in 1 .. 10 : Digits[i] = c) - 1

RECURSIVE Pow10(_)
Pow10(k) == IF k = 0 THEN 1 ELSE 10 * Pow10(k - 1)

RECURSIVE DigitsToInt(_)
DigitsToInt(s) ==
    IF Len(s) = 0 THEN 0
    ELSE 10 * DigitsToInt(SubSeq(s, 1, Len(s) - 1)) + DigitVal(s[Len(s)])

\* decimal.ROUND_HALF_UP, set by DataExtractor.__init__ / FormulaEvaluator.__init__
RoundHalfUp(n, d) ==
    IF n >= 0 THEN (2 * n + d) \div (2 * d) ELSE -((2 * (-n) + d) \div (2 * d))

\* Decimal.quantize(Decimal('0.01')) of n / 10^scale, in cents
Quantize(n, scale) == RoundHalfUp(n * 100, Pow10(scale))

None == [ok |-> FALSE, n |-> 0, scale |-> 0]
Dec(n, scale) == [ok |-> TRUE, n |-> n, scale |-> scale]

\* a Decimal held in a variable map: n / 10^scale, or the special value
\* Decimal('Infinity'), which quantize() refuses with InvalidOperation
Value(n, scale) == [special |-> FALSE, n |-> n, scale |-> scale]
Infinity == [special |-> TRUE, n |-> 0, scale |-> 0]

CountOf(s, c) == Cardinality({ i \in 1 .. Len(s) : s[i] = c })
IndexOf(s, c) == CHOOSE i \in 1 .. Len(s) : s[i] = c /\ \A j \in 1 .. (i - 1) : s[j] # c

\* decimal.Decimal(text) for an unsigned digit string with at most one point;
\* anything else raises InvalidOperation (ok = FALSE)
DecimalOf(text) ==
    LET dots   == CountOf(text, ".")
        digits == SelectSeq(text, IsDigit)
    IN  IF \/ dots > 1
           \/ Len(digits) = 0
           \/ Len(digits) + dots # Len(text)
        THEN None
        ELSE Dec(DigitsToInt(digits),
                 IF dots = 0 THEN 0 ELSE Len(text) - IndexOf(text, "."))

(***************************************************************************)
(* DataExtractor (utils/data_extraction.py)                                *)
(***************************************************************************)
\* every tag becomes a separator between the text nodes around it
RECURSIVE StripTags(_, _)
StripTags(s, inTag) ==
    IF Len(s) = 0 THEN <<>>
    ELSE IF s[1] = "<" THEN <<" ">> \o StripTags(Tail(s), TRUE)
    ELSE IF s[1] = ">" /\ inTag THEN StripTags(Tail(s), FALSE)
    ELSE IF inTag THEN StripTags(Tail(s), TRUE)
    ELSE <<s[1]>> \o StripTags(Tail(s), FALSE)

\* re.sub(r'\s+', ' ', text) after strip=True: runs of blanks become one
\* blank, none at either end
RECURSIVE Squeeze(_, _)
Squeeze(s, afterBlank) ==
    IF Len(s) = 0 THEN <<>>
    ELSE IF s[1] = " " THEN (IF afterBlank THEN <<>> ELSE <<" ">>) \o Squeeze(Tail(s), TRUE)
    ELSE <<s[1]>> \o Squeeze(Tail(s), FALSE)

DropLastBlank(s) ==
    IF Len(s) > 0 /\ s[Len(s)] = " " THEN SubSeq(s, 1, Len(s) - 1) ELSE s

\* strip_html: the text nodes of the document joined by single blanks
strip_html(html_content) ==
    IF ~Truthy(html_content) THEN <<>>
    ELSE DropLastBlank(Squeeze(StripTags(html_content, FALSE), TRUE))

\* A pattern stands for the regular expression  lit([\d.,]+)  (cls = "num") or
\* lit(\S+)  (cls = "word"):  a literal followed by one capture group.
NoPattern == [has |-> FALSE, lit |-> <<>>, cls |-> "num"]
Pattern(lit, cls) == [has |-> TRUE, lit |-> lit, cls |-> cls]

InClass(c, cls) ==
    IF cls = "num" THEN IsDigit(c) \/ c = "." \/ c = ","
    ELSE c # " "

\* length of the longest run of class characters of text starting at position i
RECURSIVE RunLen(_, _, _)
RunLen(text, i, cls) ==
    IF i > Len(text) \/ ~InClass(text[i], cls) THEN 0
    ELSE 1 + RunLen(text, i + 1, cls)

MatchesAt(pattern, text, i) ==
    /\ i + Len(pattern.lit) - 1 <= Len(text)
    /\ SubSeq(text, i, i + Len(pattern.lit) - 1) = pattern.lit
    /\ RunLen(text, i + Len(pattern.lit), pattern.cls) > 0

NoText == [found |-> FALSE, text |-> <<>>]

\* where re.search finds the pattern: the leftmost position
FirstMatch(pattern, text) ==
    CHOOSE k \in 1 .. Len(text) :
        /\ MatchesAt(pattern, text, k)
        /\ \A j \in 1 .. (k - 1) : ~MatchesAt(pattern, text, j)

\* group(1): the greedy run of class characters starting at from
Group(text, from, cls) == SubSeq(text, from, from + RunLen(text, from, cls) - 1)

\* extract_value: re.search (leftmost match, greedy group), group(1)
extract_value(pattern, text) ==
    IF ~Truthy(text) \/ ~pattern.has THEN NoText
    ELSE IF \E i \in 1 .. Len(text) : MatchesAt(pattern, text, i)
    THEN [found |-> TRUE,
          text  |-> Group(text, FirstMatch(pattern, text) + Len(pattern.lit), pattern.cls)]
    ELSE NoText

CommaToPoint(s) == [ i \in 1 .. Len(s) |-> IF s[i] = "," THEN "." ELSE s[i] ]
IsDigitOrPoint(c) == IsDigit(c) \/ c = "."

\* normalize_decimal: None for an empty string or when Decimal() raises
normalize_decimal(value_str) ==
    IF ~Truthy(value_str) THEN None
    ELSE DecimalOf(SelectSeq(CommaToPoint(value_str), IsDigitOrPoint))

\* `not decimal_value`: None, or a Decimal equal to zero
DecimalFalsy(d) == ~d.ok \/ d.n = 0

\* decimal.Decimal(str(rule['default'])) raises InvalidOperation, which
\* extract_data does not catch
DefaultRaises(spec) ==
    /\ spec.default.has
    /\ spec.default.type \in {"int", "str"}
    /\ ~DecimalOf(spec.default.text).ok

\* "if value is None": the next source is tried only when the last found nothing
OrElse(value, next) == IF value.found /\ Truthy(value.text) THEN value ELSE next

\* html_pattern on the HTML body
FromHtml(spec, body_html) ==
    IF spec.html_pattern.has /\ Truthy(body_html)
    THEN extract_value(spec.html_pattern, body_html) ELSE NoText

\* pattern on the plain text, or on the HTML body with its tags stripped
FromText(spec, text) ==
    IF spec.pattern.has /\ Truthy(text)
    THEN extract_value(spec.pattern, text) ELSE NoText

\* mutant of CapturedText: the plain-text body is searched before the HTML body
CapturedTextPlainFirst(spec, body_text, body_html) ==
    OrElse(OrElse(FromText(spec, body_text), FromHtml(spec, body_html)),
           FromText(spec, strip_html(body_html)))

\* one variable of extract_data: the captured text
CapturedText(spec, body_text, body_html) ==
    OrElse(OrElse(FromHtml(spec, body_html), FromText(spec, body_text)),
           FromText(spec, strip_html(body_html)))

\* the calls of extract_value that extract_data makes for one variable, in
\* order: each is guarded by the presence of its pattern and of its text, the
\* second and third also by "not value"
Source(tried, name) == IF tried THEN <<name>> ELSE <<>>

Got(value) == value.found /\ Truthy(value.text)

ConsultedAfter(spec, body_text, stripped_html, html_tried, v1, v2) ==
    Source(html_tried, "html")
        \o Source(~Got(v1) /\ spec.pattern.has /\ Truthy(body_text), "text")
        \o Source(~Got(v2) /\ spec.pattern.has /\ Truthy(stripped_html), "stripped")

Consulted(spec, body_text, body_html) ==
    ConsultedAfter(spec, body_text, strip_html(body_html),
                   spec.html_pattern.has /\ Truthy(body_html),
                   FromHtml(spec, body_html),
                   OrElse(FromHtml(spec, body_html), FromText(spec, body_text)))

\* "if value: decimal_value = normalize_decimal(value)"
CapturedDecimal(value) ==
    IF value.found /\ Truthy(value.text) THEN normalize_decimal(value.text) ELSE None

\* the default is consulted when the captured value is None or zero
UsesDefault(dv, spec) ==
    DecimalFalsy(dv) /\ spec.default.has /\ spec.default.type \in {"int", "str"}

\* mutant of VarOutcome: a variable without a value is stored as zero
VarOutcomeZeroWhenMissing(dv, spec) ==
    IF UsesDefault(dv, spec)
    THEN (IF DefaultRaises(spec) THEN [raised |-> TRUE, value |-> None]
          ELSE [raised |-> FALSE, value |-> DecimalOf(spec.default.text)])
    ELSE [raised |-> FALSE, value |-> IF dv.ok THEN dv ELSE Dec(0, 0)]

\* the default, or the captured decimal, or nothing
VarOutcome(dv, spec) ==
    IF UsesDefault(dv, spec)
    THEN (IF DefaultRaises(spec) THEN [raised |-> TRUE, value |-> None]
          ELSE [raised |-> FALSE, value |-> DecimalOf(spec.default.text)])
    ELSE [raised |-> FALSE, value |-> dv]

\* one iteration of "for name, rule in extraction_rules.items()"
Variable(spec, body_text, body_html) ==
    VarOutcome(CapturedDecimal(CapturedText(spec, body_text, body_html)), spec)

\* decimal_value.quantize(Decimal('0.01')): the exponent of the result is -2
QuantizeDec(d) == Value(Quantize(d.n, d.scale), 2)

\* the last variable of each name that got a value
LastOf(outs, extraction_rules, nm) ==
    CHOOSE j \in 1 .. Len(outs) :
        /\ outs[j].value.ok /\ extraction_rules[j].name = nm
        /\ \A i \in 1 .. Len(outs) :
              outs[i].value.ok /\ extraction_rules[i].name = nm => i <= j

Collect(outs, extraction_rules) ==
    IF \E k \in 1 .. Len(outs) : outs[k].raised
    THEN [raised |-> TRUE, results |-> << >>]
    ELSE [raised |-> FALSE,
          results |->
            [ nm \in { extraction_rules[k].name : k \in { j \in 1 .. Len(outs) : outs[j].value.ok } }
                |-> QuantizeDec(outs[LastOf(outs, extraction_rules, nm)].value) ]]

\* extract_data: raised, or the map  name -> Decimal  of the variables that got a value
extract_data(body_text, body_html, extraction_rules) ==
    Collect([ k \in 1 .. Len(extraction_rules) |->
                Variable(extraction_rules[k], body_text, body_html) ],
            extraction_rules)

(***************************************************************************)
(* FormulaEvaluator.evaluate (utils/formula_evaluator.py)                  *)
(*                                                                         *)
(* A configured debit/credit is a number (FNum), a formula string (FStr)   *)
(* or missing (FAbsent).  A formula string is its sequence of tokens:      *)
(* numeric literals, identifiers (either may carry a trailing %), the      *)
(* operators + - * / and other single characters (parentheses, quotes).    *)
(* An identifier is a maximal run of word characters, which is what the    *)
(* pattern \bname\b matches for a name made of word characters.            *)
(*                                                                         *)
(* The formulas examined are operands separated by single binary           *)
(* operators, possibly ending in an operator; signs, ** and // and         *)
(* parenthesised sub-expressions are not among them.  eval() computes in   *)
(* binary floating point; the operators below compute exactly, so a result *)
(* within float error of a rounding boundary can differ by one cent.       *)
(***************************************************************************)
FNum(cents) == [kind |-> "num", cents |-> cents, toks |-> <<>>]
FStr(toks)  == [kind |-> "str", cents |-> 0, toks |-> toks]
FAbsent     == [kind |-> "absent", cents |-> 0, toks |-> <<>>]

Lit(n, scale) == [t |-> "lit", n |-> n, scale |-> scale, name |-> "", pct |-> FALSE]
Pct(n)        == [t |-> "lit", n |-> n, scale |-> 0, name |-> "", pct |-> TRUE]
Name(nm)      == [t |-> "name", n |-> 0, scale |-> 0, name |-> nm, pct |-> FALSE]
NamePct(nm)   == [t |-> "name", n |-> 0, scale |-> 0, name |-> nm, pct |-> TRUE]
Op(o)         == [t |-> "op", n |-> 0, scale |-> 0, name |-> o, pct |-> FALSE]
Sym(c)        == [t |-> "sym", n |-> 0, scale |-> 0, name |-> c, pct |-> FALSE]

\* a rational n/d, or an evaluation error
Bad == [ok |-> FALSE, n |-> 0, d |-> 1]
RECURSIVE GCD(_, _)
GCD(a, b) == IF b = 0 THEN a ELSE GCD(b, a % b)

Abs(n) == IF n < 0 THEN -n ELSE n

\* n/d in lowest terms with a positive denominator (d # 0)
Reduced(n, d, g) ==
    IF d < 0 THEN [ok |-> TRUE, n |-> -(n \div g), d |-> -(d \div g)]
    ELSE [ok |-> TRUE, n |-> n \div g, d |-> d \div g]

Rat(n, d) == Reduced(n, d, GCD(Abs(n), Abs(d)))

\* str(value): the digits of a finite Decimal with its fractional digits, or
\* the word 'Infinity'
StrOf(value, pct) ==
    IF value.special
    THEN [t |-> "name", n |-> 0, scale |-> 0, name |-> "Infinity", pct |-> pct]
    ELSE [t |-> "lit", n |-> value.n, scale |-> value.scale, name |-> "", pct |-> pct]

\* the characters of the names that are part of one another
Spelling(nm) ==
    IF nm = "total" THEN <<"t", "o", "t", "a", "l">>
    ELSE IF nm = "subtotal" THEN <<"s", "u", "b", "t", "o", "t", "a", "l">>
    ELSE <<nm>>

\* the variables whose name occurs somewhere in an identifier
Embedded(nm, variables) ==
    { v \in DOMAIN variables : Contains(Spelling(v), Spelling(nm)) }

Shortest(names) ==
    CHOOSE v \in names : \A w \in names : Len(Spelling(v)) <= Len(Spelling(w))

\* mutant of Substitute: str.replace, shortest names first: a name is replaced
\* wherever it occurs, inside longer identifiers too
SubstituteEmbedded(toks, variables) ==
    [ i \in 1 .. Len(toks) |->
        IF toks[i].t = "name" /\ Embedded(toks[i].name, variables) # {}
        THEN StrOf(variables[Shortest(Embedded(toks[i].name, variables))], toks[i].pct)
        ELSE toks[i] ]

\* re.sub(r'\b' + name + r'\b', str(variables[name]), expr): a whole-word
\* identifier that names a variable becomes that value's text
Substitute(toks, variables) ==
    [ i \in 1 .. Len(toks) |->
        IF toks[i].t = "name" /\ toks[i].name \in DOMAIN variables
        THEN StrOf(variables[toks[i].name], toks[i].pct)
        ELSE toks[i] ]

\* mutant of PassesWhitelist: every non-empty expression is let through
PassesAnything(toks) == Len(toks) > 0

\* re.match(r'^[\d\s\+\-\*\/\(\)\.\,]+$', expr): an identifier left in the
\* expression, a character other than a parenthesis, or an empty expression
\* fails the whitelist
PassesWhitelist(toks) ==
    /\ Len(toks) > 0
    /\ \A i \in 1 .. Len(toks) :
          /\ toks[i].t # "name"
          /\ toks[i].t = "sym" => toks[i].name \in {"(", ")"}

\* one operand as eval() sees it after  (\d+)% -> (\1/100) : an integer literal
\* N% is N/100; a literal with a decimal point followed by % becomes
\* "d.(dd/100)", a call of a float, which raises TypeError
Operand(tok) ==
    IF tok.t # "lit" THEN Bad
    ELSE IF tok.pct THEN (IF tok.scale = 0 THEN Rat(tok.n, 100) ELSE Bad)
    ELSE Rat(tok.n, Pow10(tok.scale))

IsOpAt(toks, i, ops) == toks[i].t = "op" /\ toks[i].name \in ops

\* position of the last operator of the set, 0 if none
LastOp(toks, ops) ==
    IF \E i \in 1 .. Len(toks) : IsOpAt(toks, i, ops)
    THEN CHOOSE i \in 1 .. Len(toks) :
             /\ IsOpAt(toks, i, ops)
             /\ \A j \in (i + 1) .. Len(toks) : ~IsOpAt(toks, j, ops)
    ELSE 0

\* one binary operation of eval(); ZeroDivisionError is an error
ApplyOp(op, l, r) ==
    IF ~l.ok \/ ~r.ok THEN Bad
    ELSE IF op = "*" THEN Rat(l.n * r.n, l.d * r.d)
    ELSE IF op = "/" THEN (IF r.n = 0 THEN Bad ELSE Rat(l.n * r.d, l.d * r.n))
    ELSE IF op = "+" THEN Rat(l.n * r.d + r.n * l.d, l.d * r.d)
    ELSE Rat(l.n * r.d - r.n * l.d, l.d * r.d)

\* eval(expr): * and / bind tighter than + and -, each left-associative; an
\* operator without both operands is a SyntaxError, and so is a parenthesis
\* without an expression in it
RECURSIVE EvalProduct(_)
ProductAt(toks, k) ==
    IF Len(toks) = 0 THEN Bad
    ELSE IF k = 0 THEN (IF Len(toks) = 1 THEN Operand(toks[1]) ELSE Bad)
    ELSE ApplyOp(toks[k].name,
                 EvalProduct(SubSeq(toks, 1, k - 1)),
                 IF k + 1 = Len(toks) THEN Operand(toks[k + 1]) ELSE Bad)

EvalProduct(toks) == ProductAt(toks, LastOp(toks, {"*", "/"}))

RECURSIVE EvalSum(_)
SumAt(toks, k) ==
    IF k = 0 THEN EvalProduct(toks)
    ELSE ApplyOp(toks[k].name,
                 EvalSum(SubSeq(toks, 1, k - 1)),
                 EvalProduct(SubSeq(toks, k + 1, Len(toks))))

EvalSum(toks) == SumAt(toks, LastOp(toks, {"+", "-"}))

\* what a call of evaluate gives its caller: a Decimal in cents, None, or an
\* exception
NoneCents == [ok |-> FALSE, cents |-> 0, raised |-> FALSE]
Cents(c) == [ok |-> TRUE, cents |-> c, raised |-> FALSE]
Raises == [ok |-> FALSE, cents |-> 0, raised |-> TRUE]

\* variables[formula].quantize(Decimal('0.01')), outside the try block
QuantizeVariable(value) ==
    IF value.special THEN Raises ELSE Cents(Quantize(value.n, value.scale))

\* Decimal(str(result)).quantize(Decimal('0.01')); an exception gives None
ToCents(r) == IF r.ok THEN Cents(RoundHalfUp(r.n * 100, r.d)) ELSE NoneCents

EvalExpr(expr) == IF ~PassesWhitelist(expr) THEN NoneCents ELSE ToCents(EvalSum(expr))

\* the fast path of evaluate: the whole formula is the name of a variable
IsVariable(formula, variables) ==
    /\ formula.kind = "str"
    /\ Len(formula.toks) = 1
    /\ formula.toks[1].t = "name" /\ ~formula.toks[1].pct
    /\ formula.toks[1].name \in DOMAIN variables

\* the steps of one call of evaluate on a formula string: whether it took the
\* fast path, the expression after substitution, and whether eval() was called
Steps(fast, expr) ==
    [fast |-> fast, expr |-> expr, evaled |-> ~fast /\ PassesWhitelist(expr)]

evaluate_steps(formula, variables) ==
    IF formula.kind # "str" \/ IsVariable(formula, variables) THEN Steps(TRUE, <<>>)
    ELSE Steps(FALSE, Substitute(formula.toks, variables))

\* FormulaEvaluator.evaluate
evaluate(formula, variables) ==
    IF formula.kind = "absent" THEN NoneCents
    ELSE IF formula.kind = "num" THEN Cents(formula.cents)
    ELSE IF IsVariable(formula, variables)
         THEN QuantizeVariable(variables[formula.toks[1].name])
    ELSE EvalExpr(Substitute(formula.toks, variables))

\* "self.evaluate(value, variables) or Decimal('0')": None and a zero result
\* both give 0
OrZero(r) == IF r.ok THEN r.cents ELSE 0

\* entry.get('debit') / entry.get('credit'): a missing value is 0 without a
\* call of evaluate
Resolved(f, variables) == IF f.kind = "absent" THEN Cents(0) ELSE evaluate(f, variables)

CalculatedEntry(account, debit, credit) ==
    [raised |-> debit.raised \/ credit.raised,
     entry  |-> [account |-> account, debit |-> OrZero(debit), credit |-> OrZero(credit)]]

CalculatedEntries(outs) ==
    IF \E k \in 1 .. Len(outs) : outs[k].raised
    THEN [raised |-> TRUE, entries |-> <<>>]
    ELSE [raised |-> FALSE, entries |-> [ k \in 1 .. Len(outs) |-> outs[k].entry ]]

\* FormulaEvaluator.calculate_voucher_entries: the resolved entries in cents
calculate_voucher_entries(entries, variables) ==
    CalculatedEntries([ k \in 1 .. Len(entries) |->
                          CalculatedEntry(entries[k].account,
                                          Resolved(entries[k].debit, variables),
                                          Resolved(entries[k].credit, variables)) ])

RECURSIVE Total(_, _)
\* sum(entry[side] for entry in calculated_entries), in cents
Total(entries, side) ==
    IF entries = <<>> THEN 0 ELSE Head(entries)[side] + Total(Tail(entries), side)

BalancedWithinACent(total_debit, total_credit) ==
    total_debit - total_credit \in {-1, 0, 1}

\* 'balanced': total_debit == total_credit
Balanced(total_debit, total_credit) == total_debit = total_credit

\* the {} preview_voucher returns from its except branch
NoPreview ==
    [empty |-> TRUE, entries |-> <<>>, total_debit |-> 0, total_credit |-> 0,
     balanced |-> FALSE]

Preview(entries, total_debit, total_credit) ==
    [empty |-> FALSE, entries |-> entries, total_debit |-> total_debit,
     total_credit |-> total_credit, balanced |-> Balanced(total_debit, total_credit)]

PreviewOf(calculated) ==
    IF calculated.raised THEN NoPreview
    ELSE Preview(calculated.entries, Total(calculated.entries, "debit"),
                 Total(calculated.entries, "credit"))

\* InteractiveTester.preview_voucher
preview_voucher(entries, variables) ==
    PreviewOf(calculate_voucher_entries(entries, variables))

(***************************************************************************)
(* Specification SpecMatch: one decider applied to one (message, rule)     *)
(***************************************************************************)
IdleStore ==
    /\ files = [cfg_processed |-> NoFile, data_processed |-> NoFile,
                cfg_ignored |-> NoFile, data_ignored |-> NoFile]
    /\ last_saved = [kind |-> "none", id |-> 0]
    /\ saved = [processed |-> {}, ignored |-> {}]

\* no closing line of a verification summary printed yet
NoSummary == [kind |-> "none", total_debit |-> 0, total_credit |-> 0]

NoCur == [id |-> 0, entries |-> <<>>, pdf_path |-> FALSE, calls |-> <<>>,
          summary |-> NoSummary]

IdleRun ==
    /\ dry_run = FALSE
    /\ ignore_processed = FALSE
    /\ rules = <<>>
    /\ processed_emails = <<>>
    /\ ignored_emails = <<>>
    /\ pc = "idle"
    /\ rule_index = 0
    /\ emails = <<>>
    /\ email_pos = 0
    /\ matching_emails = <<>>
    /\ match_pos = 0
    /\ cur = NoCur
    /\ log = {}
    /\ fetched = {}
    /\ searched = {}
    /\ extracted = {}
    /\ vouchers = {}

IdleMatch ==
    /\ m_rule = [sender |-> <<>>, subject |-> <<>>,
                 body_contains |-> [type |-> "none", terms |-> <<>>]]
    /\ m_email = [sender |-> <<>>, subject |-> <<>>, body_text |-> <<>>, body_html |-> <<>>]
    /\ m_site = "none"
    /\ m_matched = FALSE

NoResults == [raised |-> FALSE, results |-> << >>]
NoEntries == [raised |-> FALSE, entries |-> <<>>]

IdleExtract ==
    /\ x_spec = [name |-> "", html_pattern |-> NoPattern, pattern |-> NoPattern,
                 default |-> [has |-> FALSE, type |-> "int", text |-> <<>>]]
    /\ x_body_text = <<>>
    /\ x_body_html = <<>>
    /\ x_pc = "idle"
    /\ x_consulted = <<>>
    /\ x_captured = NoText
    /\ x_result = NoResults
    /\ x_entries = <<>>
    /\ x_calculated = NoEntries
    /\ x_preview = NoPreview

NoCode == 0

IdleAuth ==
    /\ a_pc = "idle"
    /\ a_authenticated = FALSE
    /\ auth_code = NoCode
    /\ a_server = "none"
    /\ a_callbacks = <<>>
    /\ a_elapsed = 0
    /\ a_fetched = NoCode
    /\ a_fetch = "none"
    /\ a_result = "none"

IdleSearch ==
    /\ s_pc = "idle"
    /\ max_results = 0
    /\ messages = <<>>
    /\ next_page_token = 0
    /\ total_fetched = 0
    /\ fetch_count = 0

IdleEval ==
    /\ f_formula = FAbsent
    /\ f_variables = << >>
    /\ f_pc = "idle"
    /\ f_trace = Steps(TRUE, <<>>)
    /\ f_result = NoneCents
    /\ f_calculated = NoEntries

InitMatch ==
    /\ m_rule \in Rules
    /\ m_email \in Emails
    /\ m_site = "none"
    /\ m_matched = FALSE
    /\ IdleStore
    /\ IdleRun
    /\ IdleExtract
    /\ IdleEval
    /\ IdleAuth
    /\ IdleSearch

\* a call of GmailService._email_matches_rule(email, rule)
CallEmailMatchesRule ==
    /\ m_site = "none"
    /\ m_site' = "matcher"
    /\ m_matched' = email_matches_rule(m_email, m_rule)
    /\ UNCHANGED <<m_rule, m_email, storeVars, runVars, pureVars>>

\* one candidate through the loop body of find_matching_emails
CallFindMatching ==
    /\ m_site = "none"
    /\ m_site' = "find"
    /\ m_matched' = find_matching_check(m_email, m_rule)
    /\ UNCHANGED <<m_rule, m_email, storeVars, runVars, pureVars>>

\* one candidate of one rule through the search loop of main()
CallMainMatching ==
    /\ m_site = "none"
    /\ m_site' = "main"
    /\ m_matched' = main_rule_matches(m_email, m_rule)
    /\ UNCHANGED <<m_rule, m_email, storeVars, runVars, pureVars>>

NextMatch == CallEmailMatchesRule \/ CallFindMatching \/ CallMainMatching

SpecMatch == InitMatch /\ [][NextMatch]_vars

(***************************************************************************)
(* Specification SpecStore: saves and loads of the two ID lists            *)
(***************************************************************************)
InitStore ==
    /\ files \in [ cfg_processed : FileStates, data_processed : FileStates,
                   cfg_ignored : FileStates, data_ignored : FileStates ]
    /\ last_saved = [kind |-> "none", id |-> 0]
    /\ saved = [processed |-> {}, ignored |-> {}]
    /\ IdleMatch
    /\ IdleRun
    /\ IdleExtract
    /\ IdleEval
    /\ IdleAuth
    /\ IdleSearch

SaveProcessed ==
    \E id \in IDs :
        /\ files' = save_processed_email(files, id)
        /\ last_saved' = [kind |-> "processed", id |-> id]
        /\ saved' = [saved EXCEPT !.processed = @ \cup {id}]
        /\ UNCHANGED <<matchVars, runVars, pureVars>>

SaveIgnored ==
    \E id \in IDs :
        /\ files' = save_ignored_email(files, id)
        /\ last_saved' = [kind |-> "ignored", id |-> id]
        /\ saved' = [saved EXCEPT !.ignored = @ \cup {id}]
        /\ UNCHANGED <<matchVars, runVars, pureVars>>

NextStore == SaveProcessed \/ SaveIgnored

SpecStore == InitStore /\ [][NextStore]_vars

(***************************************************************************)
(* Specification Spec: one run of main() (app/main.py:234-655)             *)
(*                                                                         *)
(* The mail server, the PDF converter, the accounting system and the       *)
(* operator are the environment: search results, fetch and PDF failures,   *)
(* create_voucher outcomes and the answers to cli.confirm are chosen       *)
(* nondeterministically.                                                   *)
(***************************************************************************)
NoDefault == [has |-> FALSE, type |-> "int", text |-> <<>>]
Default(type, text) == [has |-> TRUE, type |-> type, text |-> text]

\* {"amount": {"pattern": "a([\d.,]+)", ["default": ...]}}
AmountSpec(default) ==
    [name |-> "amount", html_pattern |-> NoPattern,
     pattern |-> Pattern(<<"a">>, "num"), default |-> default]

NoExtraction == [has |-> FALSE, specs |-> <<>>]
Extraction(specs) == [has |-> TRUE, specs |-> specs]
NoAccounting == [has |-> FALSE, entries |-> <<>>]
Accounting(entries) == [has |-> TRUE, entries |-> entries]

\* [6540: debit "amount"; 1930: credit "amount"]
BalancedEntries ==
    << [account |-> "6540", debit |-> FStr(<<Name("amount")>>), credit |-> FNum(0)],
       [account |-> "1930", debit |-> FNum(0), credit |-> FStr(<<Name("amount")>>)] >>

\* [6540: debit "amount / 0"; 2640: debit "amount * 25%"; 1930: credit "total"]
FailingEntries ==
    << [account |-> "6540", debit |-> FStr(<<Name("amount"), Op("/"), Lit(0, 0)>>),
        credit |-> FNum(0)],
       [account |-> "2640", debit |-> FStr(<<Name("amount"), Op("*"), Pct(25)>>),
        credit |-> FNum(0)],
       [account |-> "1930", debit |-> FNum(0), credit |-> FStr(<<Name("total")>>)] >>

\* [6540: debit "amount"; 2640: debit "amount * 25%"; 1930: credit "amount"]
UnbalancedEntries ==
    << [account |-> "6540", debit |-> FStr(<<Name("amount")>>), credit |-> FNum(0)],
       [account |-> "2640", debit |-> FStr(<<Name("amount"), Op("*"), Pct(25)>>),
        credit |-> FNum(0)],
       [account |-> "1930", debit |-> FNum(0), credit |-> FStr(<<Name("amount")>>)] >>

\* [1510: debit 100, credit 0; 3000: debit 0, credit 99.99], written as numbers
NumberEntries ==
    << [account |-> "1510", debit |-> FNum(10000), credit |-> FNum(0)],
       [account |-> "3000", debit |-> FNum(0), credit |-> FNum(9999)] >>

NoTerms == [type |-> "none", terms |-> <<>>]

\* sender only; the amount has no default; formulas that fail
RulePlain ==
    [sender |-> <<"A">>, subject |-> <<>>, body_contains |-> NoTerms,
     data_extraction |-> Extraction(<<AmountSpec(NoDefault)>>),
     accounting |-> Accounting(FailingEntries)]

\* one body term; the default of the amount is the string "x"
RuleBadDefault ==
    [sender |-> <<"A">>, subject |-> <<>>,
     body_contains |-> [type |-> "str", terms |-> << <<"b">> >>],
     data_extraction |-> Extraction(<<AmountSpec(Default("str", <<"x">>))>>),
     accounting |-> Accounting(BalancedEntries)]

\* no sender
RuleNoSender ==
    [sender |-> <<>>, subject |-> <<"A">>, body_contains |-> NoTerms,
     data_extraction |-> NoExtraction,
     accounting |-> Accounting(BalancedEntries)]

\* no data_extraction, no accounting
RuleNoAccounting ==
    [sender |-> <<"A">>, subject |-> <<"A">>, body_contains |-> NoTerms,
     data_extraction |-> NoExtraction,
     accounting |-> NoAccounting]

\* formulas that resolve to more debit than credit
RuleUnbalanced ==
    [sender |-> <<"A">>, subject |-> <<>>, body_contains |-> NoTerms,
     data_extraction |-> Extraction(<<AmountSpec(NoDefault)>>),
     accounting |-> Accounting(UnbalancedEntries)]

\* numbers that do not balance
RuleNumbers ==
    [sender |-> <<"A">>, subject |-> <<>>, body_contains |-> NoTerms,
     data_extraction |-> NoExtraction,
     accounting |-> Accounting(NumberEntries)]

\* the email_rules lists of the runs examined
Configs ==
    { <<>>,
      <<RuleUnbalanced>>,
      <<RuleNumbers>>,
      <<RulePlain>>,
      <<RulePlain, RuleBadDefault>>,
      <<RuleBadDefault, RulePlain>>,
      <<RuleNoSender, RuleNoAccounting>>,
      <<RuleNoAccounting, RuleNoSender>> }

\* what the mailbox holds under each id
Mailbox(id) ==
    IF id = 1 THEN [sender |-> <<"A">>, subject |-> <<"A">>,
                    body_text |-> <<"a", "5">>, body_html |-> <<>>]
    ELSE IF id = 2 THEN [sender |-> <<"A">>, subject |-> <<>>,
                         body_text |-> <<"a", "5">>, body_html |-> <<"B", "0">>]
    ELSE [sender |-> <<"a">>, subject |-> <<"A">>,
          body_text |-> <<>>, body_html |-> <<"<", "b", ">", "a", "0">>]

\* the Date header of each message: ids are numbered in order of arrival, so a
\* larger id is a newer message
MailboxDate(id) == id

\* get_email's fallback message, as get_email_content reads it: the part has
\* no mimeType, the KeyError is caught and every field is empty
MinimalMessage ==
    [sender |-> <<>>, subject |-> <<>>, body_text |-> <<>>, body_html |-> <<>>]

\* what gmail.search_emails can return: any list of at most n distinct ids
SearchResults(n) == { l \in ListsUpTo(IDs, n) : NoDup(l) }

\* cli.confirm returns 'y', 'n' or 'i'; main() only compares with 'y'
Answers == {"y", "n"}

\* the data directory at startup: id 1 may be recorded as processed and the
\* last id as ignored
RunFiles ==
    [ cfg_processed : { NoFile }, data_processed : { NoFile, File(<<1>>) },
      cfg_ignored : { NoFile }, data_ignored : { NoFile, File(<<MaxMsgs>>) } ]

Init ==
    /\ dry_run \in BOOLEAN
    /\ ignore_processed \in BOOLEAN
    /\ rules \in Configs
    /\ files \in RunFiles
    /\ last_saved = [kind |-> "none", id |-> 0]
    /\ saved = [processed |-> {}, ignored |-> {}]
    /\ processed_emails = <<>>
    /\ ignored_emails = <<>>
    /\ pc = "start"
    /\ rule_index = 0
    /\ emails = <<>>
    /\ email_pos = 0
    /\ matching_emails = <<>>
    /\ match_pos = 0
    /\ cur = NoCur
    /\ log = {}
    /\ fetched = {}
    /\ searched = {}
    /\ extracted = {}
    /\ vouchers = {}
    /\ IdleMatch
    /\ IdleExtract
    /\ IdleEval
    /\ IdleAuth
    /\ IdleSearch

Logged(kind, id) == [kind |-> kind, id |-> id]

AlwaysAuthenticates(dry) == TRUE

\* main.py:289  "if not dry_run:"
NeedsAuthentication(dry) == ~dry

\* main.py:288-293: authenticate_accounting is called unless the run is a dry
\* run; when it returns false main() returns
Authenticate ==
    /\ pc = "start"
    /\ IF NeedsAuthentication(dry_run)
       THEN \E authenticated \in BOOLEAN :
               /\ log' = log \cup {Logged("authenticate", 0)}
               /\ pc' = IF authenticated THEN "load" ELSE "exit"
       ELSE /\ log' = log \cup {Logged("skip_authentication", 0)}
            /\ pc' = "load"
    /\ UNCHANGED <<dry_run, ignore_processed, rules, processed_emails, ignored_emails,
                   rule_index, emails, email_pos, matching_emails, match_pos, cur,
                   fetched, searched, extracted, vouchers,
                   storeVars, matchVars, pureVars>>

\* main.py:303-328: load the two lists, then enter the rule loop
LoadLists ==
    /\ pc = "load"
    /\ processed_emails' = IF ignore_processed THEN <<>> ELSE get_processed_emails(files)
    /\ ignored_emails' = get_ignored_emails(files)
    /\ IF rules = <<>>
       THEN /\ log' = log \cup {Logged("no_rules", 0)}
            /\ pc' = "done"
            /\ rule_index' = rule_index
       ELSE /\ log' = log
            /\ pc' = "search"
            /\ rule_index' = 1
    /\ UNCHANGED <<dry_run, ignore_processed, rules, emails, email_pos, matching_emails,
                   match_pos, cur, fetched, searched, extracted, vouchers,
                   storeVars, matchVars, pureVars>>

\* the end of one iteration of "for rule_index, rule in enumerate(rules)", and
\* main.py:412-419 after the last one
FinishRule(me, lg) ==
    IF rule_index < Len(rules)
    THEN /\ rule_index' = rule_index + 1
         /\ pc' = "search"
         /\ match_pos' = match_pos
         /\ log' = lg
    ELSE /\ rule_index' = rule_index
         /\ IF me = <<>>
            THEN /\ pc' = "done"
                 /\ match_pos' = match_pos
                 /\ log' = lg \cup {Logged("no_new_matching", 0)}
            ELSE /\ pc' = "process"
                 /\ match_pos' = 1
                 /\ log' = lg

\* main.py:330-373: one rule up to its search result
SearchRule ==
    /\ pc = "search"
    /\ \/ \* "has no sender specified, skipping"
          /\ ~Truthy(rules[rule_index].sender)
          /\ FinishRule(matching_emails, log \cup {Logged("no_sender", rule_index)})
          /\ UNCHANGED <<emails, email_pos, searched>>
       \/ \* search_emails raises: caught by the except of main.py:654
          /\ Truthy(rules[rule_index].sender)
          /\ searched' = searched \cup {rule_index}
          /\ log' = log \cup {Logged("error_processing", 0)}
          /\ pc' = "done"
          /\ UNCHANGED <<emails, email_pos, rule_index, match_pos>>
       \/ \* search_emails returns; the environment is bounded so that a run
          \* matches at most MaxHits messages
          /\ Truthy(rules[rule_index].sender)
          /\ searched' = searched \cup {rule_index}
          /\ \E result \in SearchResults(MaxHits - Len(matching_emails)) :
                IF result = <<>>
                THEN /\ FinishRule(matching_emails,
                                   log \cup {Logged("no_emails_found", rule_index)})
                     /\ UNCHANGED <<emails, email_pos>>
                ELSE /\ emails' = result
                     /\ email_pos' = 1
                     /\ pc' = "check"
                     /\ log' = log
                     /\ UNCHANGED <<rule_index, match_pos>>
    /\ UNCHANGED <<dry_run, ignore_processed, rules, processed_emails, ignored_emails,
                   matching_emails, cur, fetched, extracted, vouchers,
                   storeVars, matchVars, pureVars>>

\* the end of one iteration of "for email in emails"; the list is not read
\* again once its loop has ended
NextEmail(me, lg) ==
    IF email_pos < Len(emails)
    THEN /\ email_pos' = email_pos + 1
         /\ pc' = "check"
         /\ log' = lg
         /\ UNCHANGED <<emails, rule_index, match_pos>>
    ELSE /\ email_pos' = 0
         /\ emails' = <<>>
         /\ FinishRule(me, lg)

\* mutant of InProcessed: no id is recognised as already processed
InNoList(email_id) == FALSE

\* main.py:380  "if email_id in processed_emails"
InProcessed(email_id) == InSeq(email_id, processed_emails)

\* main.py:384  "if email_id in ignored_emails"
InIgnored(email_id) == InSeq(email_id, ignored_emails)

\* main.py:376-410: one search result of the current rule
CheckEmail ==
    /\ pc = "check"
    /\ LET email_id == emails[email_pos]
           rule     == rules[rule_index]
       IN  \/ /\ InProcessed(email_id)
              /\ NextEmail(matching_emails, log \cup {Logged("skip_processed", email_id)})
              /\ UNCHANGED <<matching_emails, fetched>>
           \/ /\ ~InProcessed(email_id)
              /\ InIgnored(email_id)
              /\ NextEmail(matching_emails, log \cup {Logged("skip_ignored", email_id)})
              /\ UNCHANGED <<matching_emails, fetched>>
           \/ /\ ~InProcessed(email_id)
              /\ ~InIgnored(email_id)
              /\ fetched' = fetched \cup {email_id}
              /\ \E fetch_ok \in BOOLEAN :
                    LET msg == IF fetch_ok THEN Mailbox(email_id) ELSE MinimalMessage
                        me  == IF main_body_match(msg, rule)
                               THEN Append(matching_emails,
                                           [id |-> email_id, message |-> msg,
                                            rule_index |-> rule_index])
                               ELSE matching_emails
                    IN  /\ matching_emails' = me
                        /\ NextEmail(me, log)
    /\ UNCHANGED <<dry_run, ignore_processed, rules, processed_emails, ignored_emails,
                   cur, searched, extracted, vouchers, storeVars, matchVars, pureVars>>


\* main.py:501-511: a string debit/credit is replaced by what evaluate returns
\* (a Decimal or None); any other value is kept as configured
Evaluated(r) ==
    IF r.raised THEN [type |-> "raised", cents |-> 0]
    ELSE IF r.ok THEN [type |-> "decimal", cents |-> r.cents]
    ELSE [type |-> "none", cents |-> 0]

EntryValue(f, variables) ==
    IF f.kind = "str" THEN Evaluated(evaluate(f, variables))
    ELSE [type |-> "num", cents |-> f.cents]

\* main.py:512-516: an exception of evaluate is reported and drops the entry
ProcessedEntry(account, debit, credit) ==
    IF debit.type = "raised" \/ credit.type = "raised" THEN <<>>
    ELSE << [account |-> account, debit |-> debit, credit |-> credit] >>

\* main.py:495-516: entry['debit'] or entry['credit'] of a missing key raises
\* KeyError, which is reported and drops the entry
RECURSIVE ProcessEntries(_, _)
ProcessEntry(e, variables) ==
    IF e.debit.kind = "absent" \/ e.credit.kind = "absent" THEN <<>>
    ELSE ProcessedEntry(e.account, EntryValue(e.debit, variables),
                        EntryValue(e.credit, variables))

ProcessEntries(templates, variables) ==
    IF templates = <<>> THEN <<>>
    ELSE ProcessEntry(Head(templates), variables)
            \o ProcessEntries(Tail(templates), variables)

\* the value written where a formula stood, had the template itself been
\* assigned to
WrittenBack(f, r) ==
    IF f.kind # "str" \/ r.raised THEN f
    ELSE IF r.ok THEN FNum(r.cents) ELSE FAbsent

TemplatesEvaluatedInPlace(templates, variables) ==
    [ k \in 1 .. Len(templates) |->
        [templates[k] EXCEPT
            !.debit = WrittenBack(@, evaluate(@, variables)),
            !.credit = WrittenBack(@, evaluate(@, variables))] ]

\* main.py:497  "processed_entry = entry.copy()": the evaluated values are
\* assigned to the copy, so the templates of the rule are what they were
TemplatesAfterProcessing(templates, variables) == templates

\* the end of one iteration of "for match in matching_emails" (a continue, or
\* the end of the body), and main.py:652 after the last one
Advance(lg) ==
    /\ cur' = NoCur
    /\ IF match_pos < Len(matching_emails)
       THEN /\ match_pos' = match_pos + 1
            /\ pc' = "process"
            /\ log' = lg
       ELSE /\ match_pos' = match_pos
            /\ pc' = "done"
            /\ log' = lg \cup {Logged("complete", 0)}

\* config.save_processed_email(email_id) called by main()
MarkProcessed(email_id) ==
    /\ files' = save_processed_email(files, email_id)
    /\ last_saved' = [kind |-> "processed", id |-> email_id]
    /\ saved' = [saved EXCEPT !.processed = @ \cup {email_id}]

\* mutant of MarkIgnored: the id to ignore is written to the processed list
MarkIgnoredAsProcessed(email_id) == MarkProcessed(email_id)

\* config.save_ignored_email(email_id) called by main()
MarkIgnored(email_id) ==
    /\ files' = save_ignored_email(files, email_id)
    /\ last_saved' = [kind |-> "ignored", id |-> email_id]
    /\ saved' = [saved EXCEPT !.ignored = @ \cup {email_id}]

\* main.py:463-476: extract_data is called with the one body get_email_body
\* returned as both body_text and body_html
Extracted(rule, email_body) ==
    IF rule.data_extraction.has
    THEN extract_data(email_body, email_body, rule.data_extraction.specs)
    ELSE [raised |-> FALSE, results |-> << >>]

\* cli.py:106-109: only the values that are int or float are summed; a Decimal
\* or None that evaluate returned is left out
RECURSIVE NumericSum(_, _)
NumericSum(entries, side) ==
    IF entries = <<>> THEN 0
    ELSE (IF Head(entries)[side].type = "num" THEN Head(entries)[side].cents ELSE 0)
            + NumericSum(Tail(entries), side)

\* cli.py:112-118: "Total: <debit> SEK = <credit> SEK" when one of the sums is
\* positive, the note about formulas otherwise
SummaryTrailer(total_debit, total_credit) ==
    IF total_debit > 0 \/ total_credit > 0
    THEN [kind |-> "total", total_debit |-> total_debit, total_credit |-> total_credit]
    ELSE [kind |-> "note", total_debit |-> 0, total_credit |-> 0]

\* cli.print_verification_summary: the line that closes the summary
print_verification_summary(entries) ==
    SummaryTrailer(NumericSum(entries, "debit"), NumericSum(entries, "credit"))

\* main.py:518-530: the calculated entries are put in the rule shown to the
\* operator
Summarised(this, entries) ==
    [this EXCEPT !.entries = entries, !.summary = print_verification_summary(entries)]

\* main.py:459-530 once the PDF step is over.  The exception extract_data lets
\* through is caught by the except of main.py:654, which ends the run.
Prepare(match, rule, ex, this) ==
    IF ex.raised
    THEN /\ log' = log \cup {Logged("error_processing", match.id)}
         /\ pc' = "done"
         /\ cur' = this
         /\ rules' = rules
    ELSE IF rule.accounting.has
    THEN /\ log' = log \cup {Logged("summary", match.id)}
         /\ pc' = "confirm"
         /\ cur' = Summarised(this, ProcessEntries(rule.accounting.entries, ex.results))
         /\ rules' = [rules EXCEPT ![match.rule_index].accounting.entries =
                          TemplatesAfterProcessing(@, ex.results)]
    ELSE /\ log' = log \cup {Logged("no_accounting", match.id)}
         /\ pc' = "ask_ignore"
         /\ cur' = this
         /\ rules' = rules

PrepareMatch(match, rule, pdf_ok) ==
    Prepare(match, rule, Extracted(rule, get_email_body(match.message)),
            [id |-> match.id, entries |-> <<>>, pdf_path |-> pdf_ok, calls |-> <<>>,
             summary |-> NoSummary])

\* main.py:419-530: one matched message up to the verification summary; a
\* failed PDF conversion is reported and leaves pdf_path None
ProcessEmail ==
    /\ pc = "process"
    /\ extracted' = extracted \cup {matching_emails[match_pos].id}
    /\ \E pdf_ok \in BOOLEAN :
          PrepareMatch(matching_emails[match_pos],
                       rules[matching_emails[match_pos].rule_index], pdf_ok)
    /\ UNCHANGED <<dry_run, ignore_processed, processed_emails, ignored_emails,
                   rule_index, emails, email_pos, matching_emails, match_pos,
                   fetched, searched, vouchers, storeVars, matchVars, pureVars>>

\* main.py:533-556: the operator's answer, and the dry-run branch
Confirm ==
    /\ pc = "confirm"
    /\ \E confirmation \in Answers :
          \/ /\ confirmation # "y"
             /\ Advance(log \cup {Logged("skipping", cur.id)})
             /\ UNCHANGED storeVars
          \/ /\ confirmation = "y"
             /\ dry_run
             /\ MarkProcessed(cur.id)
             /\ Advance(log \cup {Logged("dry_run", cur.id),
                                  Logged("marked_processed", cur.id)})
          \/ /\ confirmation = "y"
             /\ ~dry_run
             /\ pc' = "create"
             /\ UNCHANGED <<cur, match_pos, log, storeVars>>
    /\ UNCHANGED <<dry_run, ignore_processed, rules, processed_emails, ignored_emails,
                   rule_index, emails, email_pos, matching_emails,
                   fetched, searched, extracted, vouchers, matchVars, pureVars>>

\* one call of accounting.create_voucher: the position of the match in the
\* matched list and the number of the call for that match, the description and
\* series (those of the rule, main.py:489-490), the entries, the attachment
\* and how the call ended.  voucher_date is the `today` of main.py:542 in
\* both calls.
Call(attachment, outcome) ==
    [id |-> cur.id, pos |-> match_pos, nth |-> Len(cur.calls) + 1,
     rule_index |-> matching_emails[match_pos].rule_index,
     entries |-> cur.entries, attachment |-> attachment, outcome |-> outcome]

RetryAttachmentKept(pdf_path) == pdf_path

\* main.py:608  "attachment_path=None  # No attachment this time"
RetryAttachment(pdf_path) == FALSE

\* main.py:559-599, 640-641: accounting.create_voucher with the PDF attached
CreateVoucher ==
    /\ pc = "create"
    /\ \E outcome \in {"created", "attachments_rejected", "failed"} :
          /\ vouchers' = vouchers \cup {Call(cur.pdf_path, outcome)}
          /\ \/ /\ outcome = "created"
                /\ MarkProcessed(cur.id)
                /\ Advance(log \cup {Logged("created", cur.id),
                                     Logged("marked_processed", cur.id)})
             \/ /\ outcome = "attachments_rejected"
                /\ pc' = "retry_prompt"
                /\ log' = log \cup {Logged("attachments_rejected", cur.id)}
                /\ cur' = [cur EXCEPT !.calls = Append(@, Call(cur.pdf_path, outcome))]
                /\ UNCHANGED <<match_pos, storeVars>>
             \/ /\ outcome = "failed"
                /\ pc' = "ask_ignore"
                /\ log' = log \cup {Logged("create_failed", cur.id)}
                /\ cur' = [cur EXCEPT !.calls = Append(@, Call(cur.pdf_path, outcome))]
                /\ UNCHANGED <<match_pos, storeVars>>
    /\ UNCHANGED <<dry_run, ignore_processed, rules, processed_emails, ignored_emails,
                   rule_index, emails, email_pos, matching_emails,
                   fetched, searched, extracted, matchVars, pureVars>>

\* main.py:600: "try creating the voucher without attachment?"
RetryPrompt ==
    /\ pc = "retry_prompt"
    /\ \E answer \in Answers :
          \/ /\ answer = "y"
             /\ pc' = "retry"
             /\ log' = log \cup {Logged("retry_confirmed", cur.id)}
             /\ UNCHANGED <<cur, match_pos>>
          \/ /\ answer # "y"
             /\ Advance(log)
    /\ UNCHANGED <<dry_run, ignore_processed, rules, processed_emails, ignored_emails,
                   rule_index, emails, email_pos, matching_emails,
                   fetched, searched, extracted, vouchers, storeVars, matchVars, pureVars>>

\* main.py:601-636: the second call, with attachment_path=None
RetryVoucher ==
    /\ pc = "retry"
    /\ \E outcome \in {"created", "failed"} :
          /\ vouchers' = vouchers \cup {Call(RetryAttachment(cur.pdf_path), outcome)}
          /\ \/ /\ outcome = "created"
                /\ MarkProcessed(cur.id)
                /\ Advance(log \cup {Logged("created", cur.id),
                                     Logged("marked_processed", cur.id)})
             \/ /\ outcome = "failed"
                /\ pc' = "ask_ignore"
                /\ log' = log \cup {Logged("retry_failed", cur.id)}
                /\ cur' = [cur EXCEPT !.calls =
                              Append(@, Call(RetryAttachment(cur.pdf_path), outcome))]
                /\ UNCHANGED <<match_pos, storeVars>>
    /\ UNCHANGED <<dry_run, ignore_processed, rules, processed_emails, ignored_emails,
                   rule_index, emails, email_pos, matching_emails,
                   fetched, searched, extracted, matchVars, pureVars>>

\* main.py:637-639, 642-644, 648-650: "ignore this email in the future?"
AskIgnore ==
    /\ pc = "ask_ignore"
    /\ \E answer \in Answers :
          \/ /\ answer = "y"
             /\ MarkIgnored(cur.id)
             /\ Advance(log \cup {Logged("marked_ignored", cur.id)})
          \/ /\ answer # "y"
             /\ Advance(log)
             /\ UNCHANGED storeVars
    /\ UNCHANGED <<dry_run, ignore_processed, rules, processed_emails, ignored_emails,
                   rule_index, emails, email_pos, matching_emails,
                   fetched, searched, extracted, vouchers, matchVars, pureVars>>

Next ==
    \/ Authenticate
    \/ LoadLists
    \/ SearchRule
    \/ CheckEmail
    \/ ProcessEmail
    \/ Confirm
    \/ CreateVoucher
    \/ RetryPrompt
    \/ RetryVoucher
    \/ AskIgnore

Spec == Init /\ [][Next]_vars


(***************************************************************************)
(* Specification SpecExtract: extract_data applied to one message and one  *)
(* extraction spec, then calculate_voucher_entries applied to its result   *)
(***************************************************************************)
MaxExtractLen == 2    \* longest generated body

ExtractChars == {"a", "0", "5", ","}

RECURSIVE StrsOver(_, _)
StrsOver(S, n) ==
    IF n = 0 THEN { <<>> }
    ELSE LET shorter == StrsOver(S, n - 1)
         IN  shorter \cup { Append(s, c) : s \in { t \in shorter : Len(t) = n - 1 }, c \in S }

\* "Total: 1,234.50 SEK"
TotalText ==
    <<"T", "o", "t", "a", "l", ":", " ", "1", ",", "2", "3", "4", ".", "5", "0",
      " ", "S", "E", "K">>

\* {"amount": {"pattern": "Total: ([\d.,]+)"}}
TotalSpec ==
    [name |-> "amount", html_pattern |-> NoPattern,
     pattern |-> Pattern(<<"T", "o", "t", "a", "l", ":", " ">>, "num"),
     default |-> NoDefault]

ExtractTexts == StrsOver(ExtractChars, MaxExtractLen) \cup {TotalText}

\* HTML bodies: a generated text, bare or after the tag <b>
ExtractHtmls ==
    { tag \o t : tag \in { <<>>, <<"<", "b", ">">> }, t \in StrsOver(ExtractChars, MaxExtractLen) }

\* html_pattern ">([\d.,]+)" or ">(\S+)", pattern "a([\d.,]+)", and the defaults
\* 7, "x" and a value that is neither a number nor a string
ExtractSpecs ==
    [ name : {"amount"},
      html_pattern : { NoPattern, Pattern(<<">">>, "num"), Pattern(<<">">>, "word") },
      pattern : { NoPattern, Pattern(<<"a">>, "num") },
      default : { NoDefault, Default("int", <<"7">>), Default("str", <<"x">>),
                  Default("other", <<>>) } ]
        \cup {TotalSpec}

EntryTemplates == {BalancedEntries, FailingEntries}

\* [1510: debit 100; 3000: credit 100]
ExampleEntries ==
    << [account |-> "1510", debit |-> FNum(10000), credit |-> FAbsent],
       [account |-> "3000", debit |-> FAbsent, credit |-> FNum(10000)] >>

\* [1510: debit 100; 3000: credit 99.99]
ExampleOffByACent ==
    << [account |-> "1510", debit |-> FNum(10000), credit |-> FAbsent],
       [account |-> "3000", debit |-> FAbsent, credit |-> FNum(9999)] >>

PreviewTemplates == EntryTemplates \cup {ExampleEntries, ExampleOffByACent}

InitExtract ==
    /\ x_spec \in ExtractSpecs
    /\ x_body_text \in ExtractTexts
    /\ x_body_html \in ExtractHtmls
    /\ x_pc = "input"
    /\ x_consulted = <<>>
    /\ x_captured = NoText
    /\ x_result = NoResults
    /\ x_entries = <<>>
    /\ x_calculated = NoEntries
    /\ x_preview = NoPreview
    /\ IdleStore
    /\ IdleMatch
    /\ IdleRun
    /\ IdleEval
    /\ IdleAuth
    /\ IdleSearch

\* extract_data(email_content, {name: spec})
CallExtractData ==
    /\ x_pc = "input"
    /\ x_pc' = "extracted"
    /\ x_consulted' = Consulted(x_spec, x_body_text, x_body_html)
    /\ x_captured' = CapturedText(x_spec, x_body_text, x_body_html)
    /\ x_result' = extract_data(x_body_text, x_body_html, <<x_spec>>)
    /\ UNCHANGED <<x_spec, x_body_text, x_body_html, x_entries, x_calculated, x_preview,
                   storeVars, matchVars, runVars, evalVars, authVars, searchVars>>

\* calculate_voucher_entries(entries, extracted_data)
CallCalculateVoucherEntries ==
    /\ x_pc = "extracted"
    /\ ~x_result.raised
    /\ \E entries \in EntryTemplates :
          /\ x_entries' = entries
          /\ x_calculated' = calculate_voucher_entries(entries, x_result.results)
    /\ x_pc' = "calculated"
    /\ UNCHANGED <<x_spec, x_body_text, x_body_html, x_consulted, x_captured, x_result,
                   x_preview, storeVars, matchVars, runVars, evalVars, authVars, searchVars>>

\* InteractiveTester.preview_voucher(rule, extracted_data), rule['accounting']
\* ['entries'] being one of the templates
CallPreviewVoucher ==
    /\ x_pc = "extracted"
    /\ ~x_result.raised
    /\ \E entries \in PreviewTemplates :
          /\ x_entries' = entries
          /\ x_preview' = preview_voucher(entries, x_result.results)
    /\ x_pc' = "previewed"
    /\ UNCHANGED <<x_spec, x_body_text, x_body_html, x_consulted, x_captured, x_result,
                   x_calculated, storeVars, matchVars, runVars, evalVars, authVars, searchVars>>

NextExtract == CallExtractData \/ CallCalculateVoucherEntries \/ CallPreviewVoucher

SpecExtract == InitExtract /\ [][NextExtract]_vars

(***************************************************************************)
(* Specification SpecEval: evaluate applied to one formula string and one  *)
(* variable map                                                            *)
(***************************************************************************)
MaxOps == 1           \* most binary operators in a generated formula

EvalNames == {"total", "subtotal", "rate"}

\* 2.30, 25 and Decimal('Infinity')
EvalValues == { Value(230, 2), Value(25, 0), Infinity }

\* every map that gives a value to some of the names
VariableMaps == UNION { [ names -> EvalValues ] : names \in SUBSET EvalNames }

\* 0, 100, 2.3, 25%, the three names, rate% and a name no map defines
EvalOperands ==
    { Lit(0, 0), Lit(100, 0), Lit(23, 1), Pct(25),
      Name("total"), Name("subtotal"), Name("rate"), NamePct("rate"), Name("vat") }

EvalOps == { Op("+"), Op("-"), Op("*"), Op("/") }

\* operand (operator operand)^n
RECURSIVE Chains(_)
Chains(n) ==
    IF n = 0 THEN { <<x>> : x \in EvalOperands }
    ELSE LET shorter == Chains(n - 1)
         IN  shorter \cup
             { c \o <<o, x>> : c \in { d \in shorter : Len(d) = 2 * n - 1 },
                               o \in EvalOps, x \in EvalOperands }

\* "__import__('os')"
InjectionAttempt ==
    << Name("__import__"), Sym("("), Sym("'"), Name("os"), Sym("'"), Sym(")") >>

\* well-formed chains, chains that end in an operator, the empty string and
\* the injection attempt
EvalFormulas ==
    Chains(MaxOps)
        \cup { Append(c, o) : c \in Chains(MaxOps - 1), o \in EvalOps }
        \cup { <<>>, InjectionAttempt }

InitEval ==
    /\ f_formula \in { FStr(toks) : toks \in EvalFormulas }
    /\ f_variables \in VariableMaps
    /\ f_pc = "input"
    /\ f_trace = Steps(TRUE, <<>>)
    /\ f_result = NoneCents
    /\ f_calculated = NoEntries
    /\ IdleStore
    /\ IdleMatch
    /\ IdleRun
    /\ IdleExtract
    /\ IdleAuth
    /\ IdleSearch

\* evaluate(formula, variables)
CallEvaluate ==
    /\ f_pc = "input"
    /\ f_pc' = "evaluated"
    /\ f_trace' = evaluate_steps(f_formula, f_variables)
    /\ f_result' = evaluate(f_formula, f_variables)
    /\ UNCHANGED <<f_formula, f_variables, f_calculated,
                   storeVars, matchVars, runVars, extractVars, authVars,
                   searchVars>>

\* [6540: debit <formula>; 1930: credit <formula>], the other side left out
FormulaEntries(formula) ==
    << [account |-> "6540", debit |-> formula, credit |-> FAbsent],
       [account |-> "1930", debit |-> FAbsent, credit |-> formula] >>

\* calculate_voucher_entries(entries, variables) on templates that carry the
\* formula, with the variable map of the caller
CallCalculateWithVariables ==
    /\ f_pc = "input"
    /\ f_pc' = "calculated"
    /\ f_calculated' = calculate_voucher_entries(FormulaEntries(f_formula), f_variables)
    /\ UNCHANGED <<f_formula, f_variables, f_trace, f_result,
                   storeVars, matchVars, runVars, extractVars, authVars,
                   searchVars>>

NextEval == CallEvaluate \/ CallCalculateWithVariables

SpecEval == InitEval /\ [][NextEval]_vars

(***************************************************************************)
(* Specification SpecAuth: authenticate_accounting and the thread of the   *)
(* local callback server.  The server thread runs serve_forever from       *)
(* start_auth_server on and handles one request at a time; do_GET touches  *)
(* the shared auth_code in a single assignment.  Each statement of         *)
(* authenticate_accounting that reads or writes auth_code or the server is *)
(* a step of its own, so every interleaving of the two threads is a        *)
(* behaviour.                                                              *)
(***************************************************************************)
MaxCodes == 2          \* distinct authorization codes
MaxCallbacks == 2      \* callbacks that carry a code
timeout_seconds == 2   \* length of the wait in sleeps (120 in the source)

Codes == 1 .. MaxCodes

InitAuth ==
    /\ a_pc = "call"
    /\ a_authenticated \in BOOLEAN
    /\ auth_code = NoCode
    /\ a_server = "none"
    /\ a_callbacks = <<>>
    /\ a_elapsed = 0
    /\ a_fetched = NoCode
    /\ a_fetch = "none"
    /\ a_result = "none"
    /\ IdleStore
    /\ IdleMatch
    /\ IdleRun
    /\ IdleExtract
    /\ IdleEval
    /\ IdleSearch

authUnchanged == <<storeVars, matchVars, runVars, extractVars, evalVars, searchVars>>

\* main.py:163-164  "if accounting_client.is_authenticated(): return True"
CheckAuthenticated ==
    /\ a_pc = "call"
    /\ IF a_authenticated
       THEN a_result' = "true" /\ a_pc' = "done"
       ELSE a_result' = a_result /\ a_pc' = "start_server"
    /\ UNCHANGED <<a_authenticated, auth_code, a_server, a_callbacks, a_elapsed,
                   a_fetched, a_fetch, authUnchanged>>

\* main.py:183-189: start_auth_server returns the server, whose thread is
\* serving from then on, or raises and authenticate_accounting returns False
\* with no server to shut down
StartAuthServer ==
    /\ a_pc = "start_server"
    /\ \E started \in BOOLEAN :
          IF started
          THEN a_server' = "serving" /\ a_pc' = "open_browser" /\ a_result' = a_result
          ELSE a_server' = a_server /\ a_pc' = "done" /\ a_result' = "false"
    /\ UNCHANGED <<a_authenticated, auth_code, a_callbacks, a_elapsed,
                   a_fetched, a_fetch, authUnchanged>>

\* main.py:192  webbrowser.open(auth_url)
OpenBrowser ==
    /\ a_pc = "open_browser"
    /\ a_pc' = "reset"
    /\ UNCHANGED <<a_authenticated, auth_code, a_server, a_callbacks, a_elapsed,
                   a_fetched, a_fetch, a_result, authUnchanged>>

\* main.py:196  "auth_code = None"
CodeAfterReset(code) == NoCode

\* main.py:194-200: the reset of the shared variable and start_time
ResetAuthCode ==
    /\ a_pc = "reset"
    /\ auth_code' = CodeAfterReset(auth_code)
    /\ a_elapsed' = 0
    /\ a_pc' = "wait"
    /\ UNCHANGED <<a_authenticated, a_server, a_callbacks, a_fetched, a_fetch,
                   a_result, authUnchanged>>

\* main.py:201  "while auth_code is None and (time.time() - start_time) < timeout_seconds"
StillWaiting(code, elapsed) == code = NoCode /\ elapsed < timeout_seconds

\* main.py:201-206: one evaluation of the loop condition, and the sleep of
\* one second when it holds
WaitLoop ==
    /\ a_pc = "wait"
    /\ IF StillWaiting(auth_code, a_elapsed)
       THEN a_elapsed' = a_elapsed + 1 /\ a_pc' = "wait"
       ELSE a_elapsed' = a_elapsed /\ a_pc' = "check_code"
    /\ UNCHANGED <<a_authenticated, auth_code, a_server, a_callbacks,
                   a_fetched, a_fetch, a_result, authUnchanged>>

\* main.py:208-211  "if auth_code is None: ... return False"
CheckCode ==
    /\ a_pc = "check_code"
    /\ IF auth_code = NoCode
       THEN a_result' = "false" /\ a_pc' = "finally"
       ELSE a_result' = a_result /\ a_pc' = "fetch"
    /\ UNCHANGED <<a_authenticated, auth_code, a_server, a_callbacks, a_elapsed,
                   a_fetched, a_fetch, authUnchanged>>

ReturnsTrueAnyway(fetched_ok) == "true"

\* main.py:215-220: True when fetch_tokens returned True, False otherwise
ResultOfFetch(fetched_ok) == IF fetched_ok THEN "true" ELSE "false"

\* main.py:215  accounting_client.fetch_tokens(auth_code), which returns True or
\* False and contains its own exceptions
FetchTokens ==
    /\ a_pc = "fetch"
    /\ a_fetched' = auth_code
    /\ \E fetched_ok \in BOOLEAN :
          /\ a_fetch' = IF fetched_ok THEN "ok" ELSE "failed"
          /\ a_result' = ResultOfFetch(fetched_ok)
    /\ a_pc' = "finally"
    /\ UNCHANGED <<a_authenticated, auth_code, a_server, a_callbacks, a_elapsed,
                   authUnchanged>>

\* main.py:222-227: the finally block, server.shutdown()
ShutdownServer ==
    /\ a_pc = "finally"
    /\ a_server' = "shut_down"
    /\ a_pc' = "close"
    /\ UNCHANGED <<a_authenticated, auth_code, a_callbacks, a_elapsed,
                   a_fetched, a_fetch, a_result, authUnchanged>>

\* main.py:228  server.server_close(), then the function returns
ServerClose ==
    /\ a_pc = "close"
    /\ a_server' = "closed"
    /\ a_pc' = "done"
    /\ UNCHANGED <<a_authenticated, auth_code, a_callbacks, a_elapsed,
                   a_fetched, a_fetch, a_result, authUnchanged>>

\* what do_GET can be asked: /favicon.ico, a path that is not /callback, and
\* a callback with a code, with an error, or with neither
Requests ==
    { [kind |-> k, code |-> NoCode] : k \in {"favicon", "other_path", "error", "neither"} }
        \cup { [kind |-> "code", code |-> c] : c \in Codes }

\* OAuthCallbackHandler.do_GET on the server thread: only a callback with a
\* code assigns auth_code
DoGet ==
    /\ a_server = "serving"
    /\ \E request \in Requests :
          IF request.kind = "code"
          THEN /\ Len(a_callbacks) < MaxCallbacks
               /\ auth_code' = request.code
               /\ a_callbacks' = Append(a_callbacks, [code |-> request.code, at |-> a_pc])
          ELSE UNCHANGED <<auth_code, a_callbacks>>
    /\ UNCHANGED <<a_pc, a_authenticated, a_server, a_elapsed, a_fetched, a_fetch,
                   a_result, authUnchanged>>

NextAuth ==
    \/ CheckAuthenticated
    \/ StartAuthServer
    \/ OpenBrowser
    \/ ResetAuthCode
    \/ WaitLoop
    \/ CheckCode
    \/ FetchTokens
    \/ ShutdownServer
    \/ ServerClose
    \/ DoGet

SpecAuth == InitAuth /\ [][NextAuth]_vars

(***************************************************************************)
(* Specification SpecSearch: the paging loop of GmailService.search_emails *)
(* against a mail service that answers each list request with a page of at *)
(* most the requested size, with or without a next-page token, or fails.   *)
(***************************************************************************)
MaxResults == 3     \* largest max_results a call is made with
PageLimit == 2      \* most results asked for in one page (500 in the source)
MaxPages == 3       \* fetch_count is not counted beyond this
MaxTokens == 2      \* distinct page tokens the service hands out

NoToken == 0
PageTokens == 1 .. MaxTokens

Min(a, b) == IF a < b THEN a ELSE b

InitSearch ==
    /\ s_pc = "loop"
    /\ max_results \in 0 .. MaxResults
    /\ messages = <<>>
    /\ next_page_token = NoToken
    /\ total_fetched = 0
    /\ fetch_count = 0
    /\ IdleStore
    /\ IdleMatch
    /\ IdleRun
    /\ IdleExtract
    /\ IdleEval
    /\ IdleAuth

searchUnchanged == <<storeVars, matchVars, runVars, extractVars, evalVars, authVars>>

\* gmail_service.py:80  "page_size = min(500, max_results - total_fetched)"
page_size(limit, collected) == Min(PageLimit, limit - collected)

\* result.get('messages', []): the service honours maxResults
Pages(size) == ListsUpTo(IDs, size)

\* gmail_service.py:101-107: the two breaks at the end of the loop body
LoopEnds(token, collected, limit) == token = NoToken \/ collected >= limit

\* gmail_service.py:77-110: one iteration of "while total_fetched < max_results".
\* fetch_count only feeds the progress line; it stops counting at MaxPages so
\* that the loop has finitely many states.
FetchPage ==
    /\ s_pc = "loop"
    /\ total_fetched < max_results
    /\ \/ \* request.execute() raises
          /\ s_pc' = "raised"
          /\ UNCHANGED <<messages, next_page_token, total_fetched, fetch_count>>
       \/ \E page \in Pages(page_size(max_results, total_fetched)),
             token \in {NoToken} \cup PageTokens :
             /\ messages' = messages \o page
             /\ total_fetched' = total_fetched + Len(page)
             /\ fetch_count' = Min(fetch_count + 1, MaxPages)
             /\ next_page_token' = token
             /\ s_pc' = IF LoopEnds(token, total_fetched + Len(page), max_results)
                        THEN "returned" ELSE "loop"
    /\ UNCHANGED <<max_results, searchUnchanged>>

\* gmail_service.py:77, 112-115: the loop is not entered and the list is returned
ReturnMessages ==
    /\ s_pc = "loop"
    /\ ~(total_fetched < max_results)
    /\ s_pc' = "returned"
    /\ UNCHANGED <<max_results, messages, next_page_token, total_fetched, fetch_count,
                   searchUnchanged>>

NextSearch == FetchPage \/ ReturnMessages

SpecSearch == InitSearch /\ [][NextSearch]_vars

\* the thread that runs search_emails keeps running; nothing is assumed of
\* what the service answers
SpecSearchLive == SpecSearch /\ WF_vars(NextSearch)

(***************************************************************************)
(* Claims about the persisted ID lists (SpecStore)                         *)
(***************************************************************************)

\* C2: round trip of the persisted ID sets: once save_processed_email(id) has
\* run, every later get_processed_emails() returns a list containing id, and
\* likewise save_ignored_email / get_ignored_emails, whatever the two storage
\* locations held at the start.
C2_SavedIdIsLoaded ==
    /\ \A id \in saved.processed : InSeq(id, get_processed_emails(files))
    /\ \A id \in saved.ignored : InSeq(id, get_ignored_emails(files))

(***************************************************************************)
(* Claims about the rule matcher (SpecMatch)                               *)
(***************************************************************************)
Decided == m_site # "none"

\* the term occurs, case-sensitively, in the plain-text body or in the HTML body
TermAppears(term, email) ==
    Contains(term, email.body_text) \/ Contains(term, email.body_html)

IsTermList(rule) == rule.body_contains.type = "list"

\* C7: when body_contains is a set of terms, a message is reported as a match
\* only if every term of the set appears in its plain-text body or in its HTML
\* body, at every call site that decides matching.
C7_EveryTermRequired ==
    (Decided /\ m_matched /\ IsTermList(m_rule)) =>
        \A k \in 1 .. Len(m_rule.body_contains.terms) :
            TermAppears(m_rule.body_contains.terms[k], m_email)

\* a message holding term A only in the HTML body and term B only in the text body
SplitAcrossFields(email, A, B) ==
    /\ A # B
    /\ Contains(A, email.body_html) /\ ~Contains(A, email.body_text)
    /\ Contains(B, email.body_text) /\ ~Contains(B, email.body_html)

IsSplitCase ==
    /\ IsTermList(m_rule)
    /\ Len(m_rule.body_contains.terms) = 2
    /\ \/ SplitAcrossFields(m_email, m_rule.body_contains.terms[1], m_rule.body_contains.terms[2])
       \/ SplitAcrossFields(m_email, m_rule.body_contains.terms[2], m_rule.body_contains.terms[1])

\* the sender and subject criteria of the rule are met by the message
HeadersMet ==
    /\ (m_rule.sender # <<>> => Contains(m_rule.sender, m_email.sender))
    /\ (m_rule.subject # <<>> => Contains(m_rule.subject, m_email.subject))

\* C8: body terms may be split across fields: a rule with body_contains [A, B]
\* matches a message that has A only in the HTML body and B only in the
\* plain-text body (its sender and subject criteria being met; in main(), for
\* a candidate of a rule that has the sender main() requires).
C8_SplitTermsMatch ==
    IsSplitCase =>
        /\ (m_site \in {"matcher", "find"} /\ HeadersMet) => m_matched
        /\ (m_site = "main" /\ m_rule.sender # <<>>) => m_matched

C8_Witness ==
    /\ IsSplitCase
    /\ m_site = "matcher"
    /\ m_rule.sender # <<>>
    /\ m_matched

\* the criterion is not contained in the text as written, but is when letter
\* case is disregarded
DiffersOnlyInCase(criterion, text) ==
    /\ criterion # <<>>
    /\ ~Contains(criterion, text)
    /\ Contains(Lower(criterion), Lower(text))

\* C9: matching is case-sensitive: a sender, subject or body term that differs
\* from the message text only in letter case never produces a match, at every
\* call site that decides that criterion (_email_matches_rule decides all
\* three, find_matching_emails subject and body, main() the body).
C9_CaseSensitive ==
    (Decided /\ m_matched) =>
        /\ m_site = "matcher" => ~DiffersOnlyInCase(m_rule.sender, m_email.sender)
        /\ m_site \in {"matcher", "find"} =>
              ~DiffersOnlyInCase(m_rule.subject, m_email.subject)
        /\ \A k \in 1 .. Len(m_rule.body_contains.terms) :
              ~ ( /\ ~TermAppears(m_rule.body_contains.terms[k], m_email)
                  /\ \/ DiffersOnlyInCase(m_rule.body_contains.terms[k], m_email.body_text)
                     \/ DiffersOnlyInCase(m_rule.body_contains.terms[k], m_email.body_html) )

NoCriteria(rule) ==
    /\ rule.sender = <<>>
    /\ rule.subject = <<>>
    /\ rule.body_contains.terms = <<>>

AllSetCriteriaMet ==
    /\ HeadersMet
    /\ \A k \in 1 .. Len(m_rule.body_contains.terms) :
          TermAppears(m_rule.body_contains.terms[k], m_email)

MatchedIds == { matching_emails[i].id : i \in 1 .. Len(matching_emails) }
VoucherIds == { call.id : call \in vouchers }

\* C1: without --ignore-processed, an id that is in the loaded processed or
\* ignored list is never fetched, never extracted, never put in the matched
\* list and never submitted as a voucher.
C1_LoadedIdsAreSkipped ==
    (pc # "start" /\ ~ignore_processed) =>
        \A id \in IDs :
            (InSeq(id, processed_emails) \/ InSeq(id, ignored_emails)) =>
                /\ id \notin fetched
                /\ id \notin extracted
                /\ id \notin MatchedIds
                /\ id \notin VoucherIds

\* a run without the flag in which the searches returned a processed id and an
\* ignored id and both were skipped
C1_Witness ==
    /\ ~ignore_processed
    /\ \E id \in IDs : InSeq(id, processed_emails) /\ Logged("skip_processed", id) \in log
    /\ \E id \in IDs : InSeq(id, ignored_emails) /\ Logged("skip_ignored", id) \in log

SubmittedOk(id) == \E call \in vouchers : call.id = id /\ call.outcome = "created"

\* C3 (as stated): an id is appended to the processed list only after a
\* create_voucher call for that message returned successfully.
C3_ProcessedOnlyAfterSubmitted ==
    \A id \in saved.processed : SubmittedOk(id)

\* C3 (amended): an id is appended to the processed list only after a
\* create_voucher call for that message returned successfully or, in a dry
\* run, after the operator approved the verification; a refusal or a failed
\* submission leaves the processed list as it was.
C3_ProcessedOnlyAfterSubmittedOrDryRun ==
    \A id \in saved.processed :
        \/ SubmittedOk(id)
        \/ dry_run /\ Logged("dry_run", id) \in log

\* a message was submitted, the call succeeded and its id was recorded, while
\* another call of the run had failed
C3_Witness ==
    /\ \E id \in saved.processed : SubmittedOk(id) /\ InSeq(id, get_processed_emails(files))
    /\ \E call \in vouchers : call.outcome = "failed"

\* the lines that say why a matched message is in neither list
Explained(id) ==
    \E line \in log :
        /\ line.id = id
        /\ line.kind \in {"skipping", "no_accounting", "create_failed", "retry_failed",
                          "attachments_rejected", "error_processing"}

\* C4: at the end of the run every matched message is in the processed list, in
\* the ignored list, or has a line that says why it is in neither.
C4_NoMatchedMessageDropped ==
    pc = "done" =>
        \A id \in MatchedIds :
            \/ InSeq(id, get_processed_emails(files))
            \/ InSeq(id, get_ignored_emails(files))
            \/ Explained(id)

\* C5: no failure of extraction or of a formula ends the pass over the matched
\* messages.
C5_ExtractionFailureContained ==
    \A id \in MatchedIds : Logged("error_processing", id) \notin log

\* C6: once the rule loop is over, every rule that names a sender was searched,
\* whatever happened to the searches before it.
C6_LaterRulesStillSearched ==
    pc \notin {"start", "exit", "load", "search", "check"} =>
        \A r \in 1 .. Len(rules) : Truthy(rules[r].sender) => r \in searched

\* C11: the matched list holds no message id twice, also when several rules
\* match the same message.
C11_MatchedListHasNoDuplicate ==
    \A i, j \in 1 .. Len(matching_emails) :
        matching_emails[i].id = matching_emails[j].id => i = j

\* C12: the matched list is in descending order of message date, newest first,
\* when the processing loop walks it.
C12_MatchedListNewestFirst ==
    pc \notin {"start", "exit", "load", "search", "check"} =>
        \A i, j \in 1 .. Len(matching_emails) :
            i < j => MailboxDate(matching_emails[i].id) >= MailboxDate(matching_emails[j].id)

(***************************************************************************)
(* Claims about extract_data and calculate_voucher_entries (SpecExtract)   *)
(***************************************************************************)
\* what each source yields when searched on its own
HtmlCapture ==
    IF x_spec.html_pattern.has THEN extract_value(x_spec.html_pattern, x_body_html) ELSE NoText
TextCapture ==
    IF x_spec.pattern.has THEN extract_value(x_spec.pattern, x_body_text) ELSE NoText
StrippedCapture ==
    IF x_spec.pattern.has THEN extract_value(x_spec.pattern, strip_html(x_body_html))
    ELSE NoText

Captures(v) == v.found /\ v.text # <<>>

SourceRank(source) == IF source = "html" THEN 1 ELSE IF source = "text" THEN 2 ELSE 3

ExtractDataReturned == x_pc \in {"extracted", "calculated"}

\* C13: the sources are consulted in the order HTML pattern on the HTML body,
\* pattern on the plain text, pattern on the stripped HTML; the captured text is
\* group 1 of the first source in that order that captures, and no source after
\* that one is consulted.
C13_SourcesInStrictOrder ==
    ExtractDataReturned =>
        /\ x_captured = IF Captures(HtmlCapture) THEN HtmlCapture
                        ELSE IF Captures(TextCapture) THEN TextCapture
                        ELSE IF Captures(StrippedCapture) THEN StrippedCapture
                        ELSE NoText
        /\ \A i, j \in 1 .. Len(x_consulted) :
              i < j => SourceRank(x_consulted[i]) < SourceRank(x_consulted[j])
        /\ Captures(HtmlCapture) => x_consulted = <<"html">>
        /\ Captures(TextCapture) => \A i \in 1 .. Len(x_consulted) : x_consulted[i] # "stripped"

\* the HTML pattern and the plain pattern both capture, and capture different
\* texts; extract_data has returned
C13_Witness ==
    /\ x_pc = "extracted"
    /\ Captures(HtmlCapture) /\ Captures(TextCapture) /\ Captures(StrippedCapture)
    /\ HtmlCapture.text # TextCapture.text
    /\ x_captured = HtmlCapture

\* the captured text is a number
CapturedNumber == normalize_decimal(x_captured.text)

\* C14: whenever the captured text normalizes to a decimal, zero included, the
\* value stored for the variable is that decimal rounded to 2 fractional
\* digits, never the default.
C14_CapturedDecimalIsStored ==
    (ExtractDataReturned /\ Captures(x_captured) /\ CapturedNumber.ok) =>
        /\ ~x_result.raised
        /\ x_spec.name \in DOMAIN x_result.results
        /\ x_result.results[x_spec.name] = QuantizeDec(CapturedNumber)

RECURSIVE SumOf(_, _)
SumOf(entries, side) ==
    IF entries = <<>> THEN 0 ELSE Head(entries)[side] + SumOf(Tail(entries), side)

\* C16: pattern "Total: ([\d.,]+)" on the body "Total: 1,234.50 SEK" with the
\* templates [6540: debit amount; 1930: credit amount] gives debit 1234.50 on
\* 6540 and credit 1234.50 on 1930, and the voucher is balanced.
C16_TotalExampleResolves ==
    (/\ x_pc = "calculated"
     /\ x_spec = TotalSpec /\ x_body_text = TotalText /\ x_entries = BalancedEntries) =>
        /\ ~x_calculated.raised
        /\ x_calculated.entries =
              << [account |-> "6540", debit |-> 123450, credit |-> 0],
                 [account |-> "1930", debit |-> 0, credit |-> 123450] >>
        /\ SumOf(x_calculated.entries, "debit") = SumOf(x_calculated.entries, "credit")

(***************************************************************************)
(* Claims about evaluate (SpecEval)                                        *)
(***************************************************************************)
\* evaluate returned or raised, and did not take the shortcut for a formula
\* that is one variable name
WentThroughSubstitution == f_pc = "evaluated" /\ ~f_trace.fast

Forbidden(tok) ==
    \/ tok.t = "name"
    \/ tok.t = "sym" /\ tok.name \notin {"(", ")"}

HasForbidden(expr) == \E i \in 1 .. Len(expr) : Forbidden(expr[i])

NamesUnresolved ==
    \E i \in 1 .. Len(f_formula.toks) :
        f_formula.toks[i].t = "name" /\ f_formula.toks[i].name \notin DOMAIN f_variables

\* C18: an expression that, after substitution and percentage rewriting, holds
\* a character outside the whitelist gives null and eval() is not called on
\* it; so do a formula that names an absent variable and __import__('os').
C18_RejectedBeforeEval ==
    f_pc = "evaluated" =>
        /\ (~f_trace.fast /\ HasForbidden(f_trace.expr)) =>
                f_result = NoneCents /\ ~f_trace.evaled
        /\ (NamesUnresolved \/ f_formula.toks = InjectionAttempt) =>
                f_result = NoneCents /\ ~f_trace.evaled

\* "100 + vat" was evaluated with a map that gives total a value and vat none
C18_Witness ==
    /\ f_pc = "evaluated"
    /\ f_formula.toks = <<Lit(100, 0), Op("+"), Name("vat")>>
    /\ "total" \in DOMAIN f_variables
    /\ HasForbidden(f_trace.expr)
    /\ f_result = NoneCents

\* the number N of a token N%: the literal, or the value of the variable
PercentNumber(tok) ==
    IF tok.t = "lit" THEN Value(tok.n, tok.scale) ELSE f_variables[tok.name]

\* the formula is  X * N%  with X a literal and N a literal or a variable
\* that has a finite value
IsTimesPercent ==
    /\ Len(f_formula.toks) = 3
    /\ f_formula.toks[1].t = "lit" /\ ~f_formula.toks[1].pct
    /\ f_formula.toks[2] = Op("*")
    /\ f_formula.toks[3].pct
    /\ \/ f_formula.toks[3].t = "lit"
       \/ /\ f_formula.toks[3].name \in DOMAIN f_variables
          /\ ~f_variables[f_formula.toks[3].name].special

\* X * N / 100 for X = x.n / 10^x.scale and N = p.n / 10^p.scale, in cents
TimesPercent(x, p) ==
    Cents(RoundHalfUp(x.n * p.n * 100, Pow10(x.scale) * Pow10(p.scale) * 100))

\* C19: X * N% evaluates to X*N/100 rounded to 2 fractional digits, whether N
\* is written as a literal or comes from the value of a variable.
C19_PercentIsHundredth ==
    (f_pc = "evaluated" /\ IsTimesPercent) =>
        f_result = TimesPercent(f_formula.toks[1], PercentNumber(f_formula.toks[3]))

\* the formula divides by the literal 0, ends in an operator or is empty
DividesByZero ==
    \E i \in 1 .. (Len(f_formula.toks) - 1) :
        f_formula.toks[i] = Op("/") /\ f_formula.toks[i + 1] = Lit(0, 0)

Malformed ==
    \/ f_formula.toks = <<>>
    \/ f_formula.toks[Len(f_formula.toks)].t = "op"

ClaimedSide(f, variables, value) ==
    IF f.kind = "absent" \/ ~value.ok THEN 0 ELSE value.cents

ClaimedEntries(templates, variables) ==
    [ k \in 1 .. Len(templates) |->
        [account |-> templates[k].account,
         debit   |-> ClaimedSide(templates[k].debit, variables,
                                 evaluate(templates[k].debit, variables)),
         credit  |-> ClaimedSide(templates[k].credit, variables,
                                 evaluate(templates[k].credit, variables))] ]

PreviewReturned == x_pc = "previewed" /\ ~x_preview.empty

\* C22: the totals of the voucher result are the sums of the debit and of the
\* credit values of the resolved entries, and the balanced flag is true
\* exactly when the two totals are equal; [1510: debit 100; 3000: credit 100]
\* gives totals (100.00, 100.00) and balanced, and a credit of 99.99 instead
\* gives not balanced.
C22_TotalsAndBalancedFlag ==
    PreviewReturned =>
        /\ x_preview.entries = calculate_voucher_entries(x_entries, x_result.results).entries
        /\ x_preview.total_debit = SumOf(x_preview.entries, "debit")
        /\ x_preview.total_credit = SumOf(x_preview.entries, "credit")
        /\ x_preview.balanced <=> (x_preview.total_debit = x_preview.total_credit)
        /\ x_entries = ExampleEntries =>
              /\ x_preview.total_debit = 10000
              /\ x_preview.total_credit = 10000
              /\ x_preview.balanced
        /\ x_entries = ExampleOffByACent =>
              /\ x_preview.total_credit = 9999
              /\ ~x_preview.balanced

C22_Witness ==
    /\ PreviewReturned
    /\ x_entries = ExampleOffByACent
    /\ x_preview.total_debit = 10000
    /\ ~x_preview.balanced

(***************************************************************************)
(* Claims about the verification summary and the submission (Spec)         *)
(***************************************************************************)
AllResolved(entries) ==
    \A k \in 1 .. Len(entries) :
        /\ entries[k].debit.type \in {"decimal", "num"}
        /\ entries[k].credit.type \in {"decimal", "num"}

RECURSIVE ResolvedSum(_, _)
ResolvedSum(entries, side) ==
    IF entries = <<>> THEN 0
    ELSE Head(entries)[side].cents + ResolvedSum(Tail(entries), side)

\* the operator is about to be asked for approval of entries whose totals differ
AskedAboutUnbalanced ==
    /\ pc = "confirm"
    /\ AllResolved(cur.entries)
    /\ ResolvedSum(cur.entries, "debit") # ResolvedSum(cur.entries, "credit")

\* the summary printed for the message closes with the two differing totals
ImbalanceShown ==
    /\ Logged("summary", cur.id) \in log
    /\ cur.summary.kind = "total"
    /\ cur.summary.total_debit = ResolvedSum(cur.entries, "debit")
    /\ cur.summary.total_credit = ResolvedSum(cur.entries, "credit")

\* C23: for every matched message whose resolved entries have a total debit
\* different from the total credit, the imbalance has been reported to the
\* operator by the time the operator is asked to approve or reject.
C23_ImbalanceReportedBeforeApproval == AskedAboutUnbalanced => ImbalanceShown

\* the calls of create_voucher made while one entry of the matched list was
\* processed
CallsFor(pos) == { call \in vouchers : call.pos = pos }

SecondCallIsConfirmedRetry(second) ==
    \E first \in CallsFor(second.pos) :
        /\ first.nth = 1
        /\ first.outcome = "attachments_rejected"
        /\ Logged("retry_confirmed", second.id) \in log
        /\ second.attachment = FALSE
        /\ second.id = first.id
        /\ second.rule_index = first.rule_index
        /\ second.entries = first.entries

C25_DryRunLeavesAccountingAlone ==
    dry_run =>
        /\ Logged("authenticate", 0) \notin log
        /\ vouchers = {}

\* a dry run in which the operator approved a verification
C25_Witness ==
    /\ dry_run
    /\ \E id \in IDs : Logged("dry_run", id) \in log
    /\ Logged("skip_authentication", 0) \in log

StoredProcessed(f) == f.data_processed.ids
StoredIgnored(f) == f.data_ignored.ids

NoIdTwice ==
    NoDup(StoredProcessed(files')) /\ NoDup(StoredIgnored(files'))

SavingPresentIdChangesNothing ==
    /\ (last_saved'.kind = "processed" /\ InSeq(last_saved'.id, StoredProcessed(files)))
          => StoredProcessed(files') = StoredProcessed(files)
    /\ (last_saved'.kind = "ignored" /\ InSeq(last_saved'.id, StoredIgnored(files)))
          => StoredIgnored(files') = StoredIgnored(files)

EarlierSavesStillStored ==
    /\ \A id \in saved.processed : InSeq(id, StoredProcessed(files'))
    /\ \A id \in saved.ignored : InSeq(id, StoredIgnored(files'))

\* C27: the stored processed and ignored lists are append-only with
\* append-if-absent: after any sequence of save calls a stored list holds no
\* id twice, saving an id that is already stored leaves the list unchanged,
\* and every id stored by an earlier save is still stored after every later
\* save.
C27_StoredListsAppendOnly ==
    [][NoIdTwice /\ SavingPresentIdChangesNothing /\ EarlierSavesStillStored]_vars

(***************************************************************************)
(* Claims about the OAuth wait (SpecAuth)                                  *)
(***************************************************************************)
\* where authenticate_accounting stands between the start of the server and
\* the end of the waiting loop
BeforeWaitEnds == {"open_browser", "reset", "wait"}

DeliveredInTime ==
    { a_callbacks[k].code : k \in { j \in 1 .. Len(a_callbacks) :
                                       a_callbacks[j].at \in BeforeWaitEnds } }

DeliveredCodes == { a_callbacks[k].code : k \in 1 .. Len(a_callbacks) }

\* C28: in every interleaving of the callback thread and
\* authenticate_accounting, when a code was delivered to the callback after
\* the server was started and before the wait ended, the function does not
\* return without having handed a delivered code to fetch_tokens: the reset
\* of auth_code never wipes it out.
C28_NoCodeLost ==
    (a_pc = "done" /\ DeliveredInTime # {}) =>
        /\ a_fetched # NoCode
        /\ a_fetched \in DeliveredCodes

\* C30: authenticate_accounting returns true only when the client was already
\* authenticated or a code was received and fetch_tokens succeeded; after a
\* timeout or a failed token exchange it returns false; and whenever the
\* server was started it has been shut down and closed by the time the
\* function returns.
C30_ResultAndServerClosed ==
    a_pc = "done" =>
        /\ a_result \in {"true", "false"}
        /\ a_result = "true" =>
              \/ a_authenticated
              \/ a_fetched \in DeliveredCodes /\ a_fetch = "ok"
        /\ (~a_authenticated /\ a_fetch # "ok") => a_result = "false"
        /\ a_server \in {"none", "closed"}
        /\ a_authenticated => a_server = "none"

\* a code arrived during the wait, the exchange failed, the server is closed
C30_Witness ==
    /\ a_pc = "done"
    /\ a_result = "false"
    /\ a_fetch = "failed"
    /\ a_fetched \in DeliveredCodes
    /\ a_server = "closed"

(***************************************************************************)
(* Claims about search_emails (SpecSearchLive)                             *)
(***************************************************************************)
SearchEnded == s_pc \in {"returned", "raised"}

WithinLimit == s_pc = "returned" => Len(messages) <= max_results

\* C29: search_emails terminates whatever the mail service answers, empty
\* pages that carry a next-page token included, and returns at most
\* max_results message references.
C29_SearchTerminatesWithinLimit ==
    /\ <>SearchEnded
    /\ []WithinLimit

====
